---- MODULE Spec2Model ----
(***************************************************************************)
(* State-machine model of the udp-highrate engines.                        *)
(*                                                                         *)
(* One engine instance is modelled per behaviour: `kind` says whether it   *)
(* is a UdpServer or a UdpClient (the two are separate executables that    *)
(* share no memory).  The owner thread calls start()/stop()/join(); the    *)
(* worker thread runs run_loop() one statement group at a time, so that a  *)
(* concurrent reader can observe every intermediate counter state.         *)
(***************************************************************************)
EXTENDS Integers, Sequences, FiniteSets, TLC

\* ---------------------------------------------------------------- bounds
NumPeers == 2     \* distinct remote (addr, port) identities
MaxCap == 1       \* max_clients is drawn from 0..MaxCap
MaxSent == 2      \* datagrams the peers send in one behaviour
MaxStarts == 2    \* start() calls in one behaviour (restart included)
MaxElapsed == 2   \* whole seconds that can pass between two looks at the clock
NumThreads == 2   \* threads calling one Stats object
MaxCalls == 2     \* calls each of them makes
MaxStore == 3     \* datagrams preloaded into, or recorded by, a socket on its own
MaxArgs == 2      \* words on the server's command line
Batch == 2        \* cfg_.batch
BigPayload == 3000 \* a datagram longer than the receive buffer
ShortPayload == 8 \* a datagram shorter than the packet header
Seconds == 3      \* cfg_.seconds, in clock ticks
Period == 1       \* interval_ns * cfg_.batch, in clock ticks
RealFd == 3       \* the descriptor of a real socket

\* ------------------------------------------------------ program constants
BufSize == 2048
SmallPayload == 64
DefaultMaxClients == 100
DefaultBatch == 64
MetricsPortDefault == 9100
MockFd == -1
HeaderSize == 20

\* kMagic = 0xC0DEF00D as its two 16-bit halves, 0xC0DE and 0xF00D
kMagic == <<49374, 61453>>

\* ---------------------------------------------------------------- state
VARIABLES
    kind,             \* "server" | "client"
    cfg,              \* cfg_ : the configuration copied at construction
    th_,              \* "none" | "joinable"  (std::thread th_)
    running_,         \* std::atomic<bool> running_
    pc,               \* position of the worker thread in run_loop()
    caller,           \* position of the owner thread
    terminated,       \* std::terminate() was called (process aborted)
    starts,           \* number of start() calls so far
    m_th,             \* MetricsHttpServer::th_
    m_running,        \* MetricsHttpServer::running_
    m_pc,             \* position of the metrics thread in run()
    sent_, recv_, rx_bytes_, tx_bytes_,   \* Stats atomics
    clients_,         \* Stats::clients_ : key -> hit count
    admitted_,        \* UdpServer::admitted_
    last_rate_pps_,   \* UdpServer::last_rate_pps_
    last_recv_total,  \* run_loop local
    msgs,             \* run_loop locals: the r received messages
    idx,              \* run_loop local: loop index i (1-based)
    echo_msgs,        \* run_loop local: queued echo replies
    w_sent,           \* run_loop local: result w of sendmmsg
    net,              \* datagrams waiting in the socket (kernel queue / rx_store_)
    nsent,            \* datagrams sent by the peers so far
    seq_,             \* UdpClient::seq_
    lag,              \* client: now - next_ts, in ticks
    t_end,            \* client: ticks left until `end`
    s_res,            \* client run_loop local: result s of send_batch
    seen,             \* history: distinct identities in processing order
    sentBy,           \* history: sizes of the datagrams each peer sent
    delivered,        \* history: datagrams handed to run_loop by the socket
    lastOp,           \* history: the last public call and how it went
    page,             \* the last response body MetricsHttpServer::render produced
    r_res,            \* server run_loop local: result r of the receive call
    echoOut,          \* history: the echo replies the socket accepted, in order
    work,             \* history: ticks since the client's iteration began
    el,               \* server run_loop: whole seconds of now - last_ts, once read
    pkts,             \* client run_loop local `batch`: hdr->seq of each packet
    sock,             \* a socket object exercised on its own
    st,               \* a Stats object's concurrent callers
    argv              \* the arguments the server executable was started with

cfgVars  == <<kind, cfg>>
lifeVars == <<th_, running_, pc, caller, terminated, starts>>
metVars  == <<m_th, m_running, m_pc>>
statVars == <<sent_, recv_, rx_bytes_, tx_bytes_, clients_>>
srvVars  == <<admitted_, last_rate_pps_, last_recv_total, msgs, idx, echo_msgs, w_sent>>
netVars  == <<net, nsent>>
cliVars  == <<seq_, lag, t_end, s_res>>
histVars == <<seen, sentBy, delivered, lastOp>>
auxVars  == <<page, r_res, echoOut, work>>
unitVars == <<sock, st, argv>>
vars == <<cfgVars, lifeVars, metVars, statVars, srvVars, netVars, cliVars, histVars,
          auxVars, unitVars, el, pkts>>

\* -------------------------------------------------------------- helpers
Min(a, b) == IF a < b THEN a ELSE b

Max(a, b) == IF a > b THEN a ELSE b

Peers == 1..NumPeers

\* The (address, port) pair a peer's datagrams carry, host order after
\* ntohl/ntohs.  Distinct peers share an address or a port with another.
KeyOf(p) == <<(p + 1) \div 2, p % 2>>

Sizes == {SmallPayload, BigPayload}

RECURSIVE SumLen(_)
SumLen(q) == IF q = <<>> THEN 0 ELSE Head(q).len + SumLen(Tail(q))

RECURSIVE SumSeq(_)
SumSeq(q) == IF q = <<>> THEN 0 ELSE Head(q) + SumSeq(Tail(q))

RECURSIVE SumOver(_, _)
SumOver(f, S) ==
    IF S = {} THEN 0
    ELSE LET x == CHOOSE y \in S : TRUE IN f[x] + SumOver(f, S \ {x})

Range(q) == {q[k] : k \in 1..Len(q)}

\* ------------------------------------------------- pure parts of the code
\* A descriptor test that lets the not-applicable sentinel through.
CanUseRecvmmsg_AnyFd(fd) == fd >= -1

\* const bool can_use_recvmmsg = (fd >= 0);
CanUseRecvmmsg(fd) == fd >= 0

\* ClientKey::operator==
KeyEq(a, b) == a[1] = b[1] /\ a[2] = b[2]

\* admitted_.find(key) != admitted_.end()
Find(adm, key) == \E k \in adm : KeyEq(k, key)

\* An admission check that compares with <= and so admits one too many.
Admit_OffByOne(adm, key, cap) ==
    IF Find(adm, key) THEN [allowed |-> TRUE, adm |-> adm]
    ELSE IF Cardinality(adm) <= cap THEN [allowed |-> TRUE, adm |-> adm \cup {key}]
    ELSE [allowed |-> FALSE, adm |-> adm]

\* An admission check that makes room for a new identity by evicting one.
Admit_Evict(adm, key, cap) ==
    IF Find(adm, key) THEN [allowed |-> TRUE, adm |-> adm]
    ELSE IF Cardinality(adm) < cap THEN [allowed |-> TRUE, adm |-> adm \cup {key}]
    ELSE IF adm = {} THEN [allowed |-> FALSE, adm |-> adm]
    ELSE [allowed |-> TRUE, adm |-> (adm \ {CHOOSE k \in adm : TRUE}) \cup {key}]

\* An admission check that admits a new identity without recording it.
Admit_NoInsert(adm, key, cap) ==
    IF Find(adm, key) THEN [allowed |-> TRUE, adm |-> adm]
    ELSE IF Cardinality(adm) < cap THEN [allowed |-> TRUE, adm |-> adm]
    ELSE [allowed |-> FALSE, adm |-> adm]

\* The admission check of run_loop: admit if seen, otherwise admit only if
\* capacity remains.  Yields the decision and the admission set afterwards.
Admit(adm, key, cap) ==
    IF Find(adm, key) THEN [allowed |-> TRUE, adm |-> adm]
    ELSE IF Cardinality(adm) < cap THEN [allowed |-> TRUE, adm |-> adm \cup {key}]
    ELSE [allowed |-> FALSE, adm |-> adm]

\* msgs[i].msg_len: the bytes recvmmsg stored in a BufSize-byte iovec
MsgLen(size) == Min(size, BufSize)

\* A counter update that stores the amount instead of adding it.
FetchAdd_Store(c, n) == n

\* std::atomic<uint64_t>::fetch_add as used by inc_sent/inc_recv/add_*_bytes
FetchAdd(c, n) == c + n

\* A note_client that records the identity without counting its hits.
NoteClient_SetsOne(cl, key) ==
    IF key \in DOMAIN cl THEN [cl EXCEPT ![key] = 1] ELSE cl @@ (key :> 1)

\* Stats::note_client: clients_[ClientKey{addr, port}]++
NoteClient(cl, key) ==
    IF key \in DOMAIN cl THEN [cl EXCEPT ![key] = @ + 1] ELSE cl @@ (key :> 1)

\* Stats::unique_clients
UniqueClients(cl) == Cardinality(DOMAIN cl)

\* Results recvmmsg can give on the non-blocking socket with queue q and n
\* buffers: -1 (hard error), 0 (EAGAIN, mapped to 0) or the number received.
RecvmmsgResults(q, n) == {-1} \cup (IF q = <<>> THEN {0} ELSE 1..Min(n, Len(q)))

\* Results sendmmsg can give for `echoed` queued replies.
SendmmsgResults(echoed) == {-1, 0} \cup (1..echoed)

\* A recv_batch that hands out one datagram per call.
MockRecvBatch_OneAtATime(q, n) == Min(1, Min(n, Len(q)))

\* MockSocket::recv_batch: as many as buffers and preloaded datagrams allow
MockRecvBatch(q, n) == Min(n, Len(q))

\* A receive path that reads the header and files non-conforming datagrams
\* under no identity.
Received_Inspecting(d) ==
    [key |-> IF d.magic = kMagic /\ d.size >= HeaderSize THEN d.src ELSE <<0, 0>>,
     len |-> MsgLen(d.size), size |-> d.size]

\* What received message k of the batch looks like to run_loop
Received(d) == [key |-> d.src, len |-> MsgLen(d.size), size |-> d.size]

\* Where run_loop goes after message i of r: next message, echo, or rate tick
AfterMsg(i, r, echo, echoed) ==
    IF i < r THEN "admit"
    ELSE IF echo /\ echoed > 0 THEN "sendmmsg" ELSE "tick"

\* A receive step that leaves the loop on a hard error.
AfterRecvmmsg_ErrorEndsLoop(r) ==
    IF r < 0 THEN "done" ELSE IF r = 0 THEN "tick" ELSE "admit"

\* A loop that treats a failed receive as an empty batch.
AfterRecvmmsg_ErrorTicks(r) ==
    IF r <= 0 THEN "tick" ELSE "admit"

\* Where run_loop goes with the result r of recvmmsg (EAGAIN already mapped to
\* 0): r < 0 -> `continue`; r = 0 -> no message to process; else the for loop
AfterRecvmmsg(r) ==
    IF r < 0 THEN "check" ELSE IF r = 0 THEN "tick" ELSE "admit"

\* An echo reply that sends the whole receive buffer.
EchoReply_WholeBuffer(m) == [dst |-> m.key, len |-> BufSize]

\* The reply queued for received message m: the same buffer, msg_len bytes of
\* it, addressed to addrs[i]
EchoReply(m) == [dst |-> m.key, len |-> m.len]

\* A constructor that swallows the exception of bind()/connect().
AfterSetup_Swallowed(res) == "idle"

\* What the constructor's caller holds afterwards: an Idle engine, or nothing
\* but the exception that bind()/connect() threw
AfterSetup(res) == IF res = "throws" THEN "threw" ELSE "idle"

\* bind()/connect(): UdpSocket throws std::runtime_error when the system call
\* fails; MockSocket's are empty
SetupResults(fd) == IF fd >= 0 THEN {"ok", "throws"} ELSE {"ok"}

\* A loop body without the `if (!allowed) continue;`.
AfterAdmit_NoSkip(allowed) == "note_client"

\* What the admission decision does to the rest of message i's processing
AfterAdmit(allowed) == IF allowed THEN "note_client" ELSE "dropped"

\* The value of a unit-level variable in a behaviour that does not exercise it
NoUnit == [unit |-> "none"]

\* ------------------------------------------------------------------ Init
ServerConfigs ==
    [max_clients : 0..MaxCap, echo : BOOLEAN,
     metrics_port : {0, MetricsPortDefault}, fd : {MockFd, RealFd}, batch : {Batch}]

ClientConfigs ==
    [seconds : {Seconds}, batch : {Batch}, payload : {SmallPayload}]

Init ==
    /\ kind \in {"server", "client"}
    /\ cfg \in (IF kind = "server" THEN ServerConfigs ELSE ClientConfigs)
    /\ th_ = "none" /\ running_ = FALSE /\ pc = "none" /\ caller = "new"
    /\ terminated = FALSE /\ starts = 0
    /\ m_th = "none" /\ m_running = FALSE /\ m_pc = "none"
    /\ sent_ = 0 /\ recv_ = 0 /\ rx_bytes_ = 0 /\ tx_bytes_ = 0
    /\ clients_ = <<>>
    /\ admitted_ = {} /\ last_rate_pps_ = 0 /\ last_recv_total = 0
    /\ msgs = <<>> /\ idx = 0 /\ echo_msgs = <<>> /\ w_sent = 0
    /\ net = <<>> /\ nsent = 0
    /\ seq_ = 0 /\ lag = 0 /\ t_end = 0 /\ s_res = 0
    /\ seen = <<>> /\ sentBy = [p \in Peers |-> <<>>] /\ delivered = 0
    /\ lastOp = "none"
    /\ page = <<>> /\ r_res = 0 /\ echoOut = <<>> /\ work = 0
    /\ el = 0 /\ pkts = <<>> /\ sock = NoUnit /\ st = NoUnit /\ argv = NoUnit

\* The constructor has returned an engine object.
Constructed == caller \notin {"new", "threw"}

\* UdpServer::UdpServer / UdpClient::UdpClient: sock_->bind(...) or
\* sock_->connect(...); an exception leaves the constructor and no object exists.
Construct ==
    /\ ~terminated /\ caller = "new"
    /\ \E res \in SetupResults(IF kind = "server" THEN cfg.fd ELSE RealFd) :
        /\ caller' = AfterSetup(res)
        /\ lastOp' = IF res = "throws" THEN "ctor_threw" ELSE "ctor"
    /\ UNCHANGED <<cfgVars, unitVars, el, pkts,
                   th_, running_, pc, terminated, starts, metVars,
                   statVars, srvVars, netVars, cliVars, seen, sentBy, delivered,
                   auxVars>>

IsServer == kind = "server" /\ ~terminated

IsClient == kind = "client" /\ ~terminated

HasMetrics == kind = "server" /\ cfg.metrics_port # 0

\* ------------------------------------------------ the network environment
\* A peer's datagram reaches the server's socket (for the in-memory socket:
\* the test preloads it, which it does while no worker thread is running).
PeerSend ==
    /\ IsServer /\ Constructed /\ nsent < MaxSent
    /\ CanUseRecvmmsg(cfg.fd) \/ th_ = "none"
    /\ \E p \in Peers, sz \in Sizes :
        /\ net' = Append(net, [src |-> KeyOf(p), size |-> sz, magic |-> kMagic])
        /\ sentBy' = [sentBy EXCEPT ![p] = Append(@, sz)]
    /\ nsent' = nsent + 1
    /\ UNCHANGED <<cfgVars, unitVars, el, pkts,
                   page, r_res, echoOut, work,
                   lifeVars, metVars, statVars, srvVars, cliVars,
                   seen, delivered, lastOp>>

\* Headers that do not conform: a wrong magic, or (with ShortPayload bytes on
\* the wire) no complete header at all
BadMagic == <<0, 0>>

\* A peer sends a datagram that is shorter than the header or carries a wrong
\* magic.
PeerSendMalformed ==
    /\ IsServer /\ Constructed /\ nsent < MaxSent
    /\ CanUseRecvmmsg(cfg.fd) \/ th_ = "none"
    /\ \E p \in Peers, sz \in {ShortPayload, SmallPayload} :
        /\ net' = Append(net, [src |-> KeyOf(p), size |-> sz,
                               magic |-> IF sz < HeaderSize THEN kMagic ELSE BadMagic])
        /\ sentBy' = [sentBy EXCEPT ![p] = Append(@, sz)]
    /\ nsent' = nsent + 1
    /\ UNCHANGED <<cfgVars, unitVars, el, pkts,
                   page, r_res, echoOut, work,
                   lifeVars, metVars, statVars, srvVars, cliVars,
                   seen, delivered, lastOp>>

\* ------------------------------------------------ UdpServer::run_loop
\* while (running_)
SrvLoopCheck ==
    /\ IsServer /\ pc = "check"
    /\ pc' = IF running_
             THEN (IF CanUseRecvmmsg(cfg.fd) THEN "recvmmsg" ELSE "recv_batch")
             ELSE "done"
    /\ r_res' = 0
    /\ UNCHANGED <<cfgVars, unitVars, el, pkts,
                   page, echoOut, work,
                   th_, running_, caller, terminated, starts, metVars,
                   statVars, srvVars, netVars, cliVars, histVars>>

\* r = ::recvmmsg(fd, ...); EAGAIN -> 0; r < 0 -> continue
SrvRecvmmsg ==
    /\ IsServer /\ pc = "recvmmsg"
    /\ \E r \in RecvmmsgResults(net, cfg.batch) :
        /\ r_res' = r
        /\ pc' = AfterRecvmmsg(r)
        /\ IF r < 0
           THEN UNCHANGED <<msgs, idx, echo_msgs, net, delivered>>
           ELSE /\ msgs' = [k \in 1..r |-> Received(net[k])]
                /\ net' = SubSeq(net, r + 1, Len(net))
                /\ idx' = 1
                /\ echo_msgs' = <<>>
                /\ delivered' = delivered + r
    /\ UNCHANGED <<cfgVars, unitVars, el, pkts,
                   page, echoOut, work,
                   th_, running_, caller, terminated, starts, metVars,
                   statVars, admitted_, last_rate_pps_, last_recv_total, w_sent,
                   nsent, cliVars, seen, sentBy, lastOp>>

\* The admission check for message i; a dropped message skips to the next.
SrvAdmit ==
    /\ IsServer /\ pc = "admit"
    /\ LET key == msgs[idx].key
           d == Admit(admitted_, key, cfg.max_clients)
       IN /\ admitted_' = d.adm
          /\ seen' = IF key \in Range(seen) THEN seen ELSE Append(seen, key)
          /\ IF AfterAdmit(d.allowed) = "dropped"
             THEN /\ pc' = AfterMsg(idx, Len(msgs), cfg.echo, Len(echo_msgs))
                  /\ idx' = idx + 1
             ELSE /\ pc' = AfterAdmit(d.allowed)
                  /\ idx' = idx
    /\ UNCHANGED <<cfgVars, unitVars, el, pkts,
                   page, r_res, echoOut, work,
                   th_, running_, caller, terminated, starts, metVars,
                   statVars, last_rate_pps_, last_recv_total, msgs, echo_msgs,
                   w_sent, netVars, cliVars, sentBy, delivered, lastOp>>

\* stats_.note_client(key.addr, key.port)
SrvNoteClient ==
    /\ IsServer /\ pc = "note_client"
    /\ clients_' = NoteClient(clients_, msgs[idx].key)
    /\ pc' = "inc_recv"
    /\ UNCHANGED <<cfgVars, unitVars, el, pkts,
                   page, r_res, echoOut, work,
                   th_, running_, caller, terminated, starts, metVars,
                   sent_, recv_, rx_bytes_, tx_bytes_, srvVars, netVars, cliVars,
                   histVars>>

\* stats_.inc_recv(1)
SrvIncRecv ==
    /\ IsServer /\ pc = "inc_recv"
    /\ recv_' = FetchAdd(recv_, 1)
    /\ pc' = "add_rx_bytes"
    /\ UNCHANGED <<cfgVars, unitVars, el, pkts,
                   page, r_res, echoOut, work,
                   th_, running_, caller, terminated, starts, metVars,
                   sent_, rx_bytes_, tx_bytes_, clients_, srvVars, netVars,
                   cliVars, histVars>>

\* stats_.add_rx_bytes(msgs[i].msg_len); if (cfg_.echo) queue the reply
SrvAddRxBytes ==
    /\ IsServer /\ pc = "add_rx_bytes"
    /\ rx_bytes_' = FetchAdd(rx_bytes_, msgs[idx].len)
    /\ LET q == IF cfg.echo
                THEN Append(echo_msgs, EchoReply(msgs[idx]))
                ELSE echo_msgs
       IN /\ echo_msgs' = q
          /\ pc' = AfterMsg(idx, Len(msgs), cfg.echo, Len(q))
    /\ idx' = idx + 1
    /\ UNCHANGED <<cfgVars, unitVars, el, pkts,
                   page, r_res, echoOut, work,
                   th_, running_, caller, terminated, starts, metVars,
                   sent_, recv_, tx_bytes_, clients_, admitted_, last_rate_pps_,
                   last_recv_total, msgs, w_sent, netVars, cliVars, histVars>>

\* int w = ::sendmmsg(fd, echo_msgs.data(), echoed, 0); if (w > 0) inc_sent(w)
SrvSendmmsg ==
    /\ IsServer /\ pc = "sendmmsg"
    /\ \E w \in SendmmsgResults(Len(echo_msgs)) :
        IF w > 0
        THEN /\ sent_' = FetchAdd(sent_, w)
             /\ w_sent' = w
             /\ echoOut' = echoOut \o SubSeq(echo_msgs, 1, w)
             /\ pc' = "add_tx_bytes"
        ELSE /\ pc' = "tick"
             /\ UNCHANGED <<sent_, w_sent, echoOut>>
    /\ UNCHANGED <<cfgVars, unitVars, el, pkts,
                   page, r_res, work,
                   th_, running_, caller, terminated, starts, metVars,
                   recv_, rx_bytes_, tx_bytes_, clients_, admitted_,
                   last_rate_pps_, last_recv_total, msgs, idx, echo_msgs,
                   netVars, cliVars, histVars>>

\* A byte count over every queued reply, accepted or not.
SrvAddTxBytes_AllQueued ==
    /\ IsServer /\ pc = "add_tx_bytes"
    /\ tx_bytes_' = FetchAdd(tx_bytes_, SumLen(echo_msgs))
    /\ pc' = "tick"
    /\ UNCHANGED <<cfgVars, unitVars, el, pkts,
                   auxVars, th_, running_, caller, terminated, starts,
                   metVars, sent_, recv_, rx_bytes_, clients_, srvVars, netVars,
                   cliVars, histVars>>

\* total_bytes += echo_msgs[i].msg_hdr.msg_iov[0].iov_len for i < w
SrvAddTxBytes ==
    /\ IsServer /\ pc = "add_tx_bytes"
    /\ tx_bytes_' = FetchAdd(tx_bytes_, SumLen(SubSeq(echo_msgs, 1, w_sent)))
    /\ pc' = "tick"
    /\ UNCHANGED <<cfgVars, unitVars, el, pkts,
                   page, r_res, echoOut, work,
                   th_, running_, caller, terminated, starts, metVars,
                   sent_, recv_, rx_bytes_, clients_, srvVars, netVars, cliVars,
                   histVars>>

\* Fallback: r = sock_->recv_batch(bufs) on the in-memory socket
SrvRecvBatch ==
    /\ IsServer /\ pc = "recv_batch"
    /\ LET r == MockRecvBatch(net, cfg.batch)
       IN /\ msgs' = [k \in 1..r |-> Received(net[k])]
          /\ net' = SubSeq(net, r + 1, Len(net))
          /\ delivered' = delivered + r
          /\ pc' = IF r > 0 THEN "fb_inc_recv" ELSE "tick"
          /\ r_res' = r
    /\ idx' = 1
    /\ UNCHANGED <<cfgVars, unitVars, el, pkts,
                   page, echoOut, work,
                   th_, running_, caller, terminated, starts, metVars,
                   statVars, admitted_, last_rate_pps_, last_recv_total,
                   echo_msgs, w_sent, nsent, cliVars, seen, sentBy, lastOp>>

\* Fallback: stats_.inc_recv(1)
SrvFbIncRecv ==
    /\ IsServer /\ pc = "fb_inc_recv"
    /\ recv_' = FetchAdd(recv_, 1)
    /\ pc' = "fb_add_rx_bytes"
    /\ UNCHANGED <<cfgVars, unitVars, el, pkts,
                   page, r_res, echoOut, work,
                   th_, running_, caller, terminated, starts, metVars,
                   sent_, rx_bytes_, tx_bytes_, clients_, srvVars, netVars,
                   cliVars, histVars>>

\* A fallback branch that hands the batch to the echo send.
AfterFallback_EchoSends(i, r, echo) ==
    IF i < r THEN "fb_inc_recv" ELSE IF echo THEN "sendmmsg" ELSE "tick"

\* Where the fallback branch goes after message i of r: the next message, or,
\* after the last, past `if (cfg_.echo) { }` whose body is empty
AfterFallback(i, r, echo) ==
    IF i < r THEN "fb_inc_recv" ELSE "tick"

\* Fallback: stats_.add_rx_bytes(bufs[i].size())
SrvFbAddRxBytes ==
    /\ IsServer /\ pc = "fb_add_rx_bytes"
    /\ rx_bytes_' = FetchAdd(rx_bytes_, BufSize)
    /\ idx' = idx + 1
    /\ pc' = AfterFallback(idx, Len(msgs), cfg.echo)
    /\ UNCHANGED <<cfgVars, unitVars, el, pkts,
                   page, r_res, echoOut, work,
                   th_, running_, caller, terminated, starts, metVars,
                   sent_, recv_, tx_bytes_, clients_, admitted_, last_rate_pps_,
                   last_recv_total, msgs, echo_msgs, w_sent, netVars, cliVars,
                   histVars>>

\* The value stored as the last rate for `delta` datagrams counted over
\* `elapsed` whole seconds: static_cast<double>(delta)
Rate_PerSecond(delta, elapsed) == delta \div elapsed
Rate(delta, elapsed) == delta

\* now = steady_clock::now(); if (now - last_ts >= 1s): the iteration's locals
\* are not used again.
SrvRateTick ==
    /\ IsServer /\ pc = "tick"
    /\ \E e \in 0..MaxElapsed :
        /\ el' = e
        /\ pc' = IF e >= 1 THEN "sample" ELSE "check"
    /\ msgs' = <<>> /\ idx' = 0 /\ echo_msgs' = <<>> /\ w_sent' = 0 /\ r_res' = 0
    /\ UNCHANGED <<cfgVars, unitVars, pkts,
                   page, echoOut, work,
                   th_, running_, caller, terminated, starts, metVars,
                   statVars, admitted_, last_rate_pps_, last_recv_total,
                   netVars, cliVars, histVars>>

\* recv_total = stats_.recv(); delta = recv_total - last_recv_total;
\* last_rate_pps_ = delta; last_recv_total = recv_total; last_ts = now
SrvRateSample ==
    /\ IsServer /\ pc = "sample"
    /\ last_rate_pps_' = Rate(recv_ - last_recv_total, el)
    /\ last_recv_total' = recv_
    /\ el' = 0
    /\ pc' = "check"
    /\ UNCHANGED <<cfgVars, unitVars, pkts,
                   auxVars, msgs, idx, echo_msgs, w_sent,
                   th_, running_, caller, terminated, starts, metVars,
                   statVars, admitted_, netVars, cliVars, histVars>>

\* ------------------------------------------------ MetricsHttpServer::run
\* The thread sits in the blocking accept().  When accept() returns (a scraper
\* connected, or the call failed) the request is served from the counters'
\* getters, which change nothing, and `while (running_)` is evaluated again.
MetricsAccept ==
    /\ IsServer /\ m_pc = "accept"
    /\ m_pc' = IF m_running THEN "accept" ELSE "done"
    /\ UNCHANGED <<cfgVars, unitVars, el, pkts,
                   page, r_res, echoOut, work,
                   lifeVars, m_th, m_running, statVars, srvVars,
                   netVars, cliVars, histVars>>

\* ------------------------------------------------ MetricsHttpServer::render
\* The character operator<< writes for one decimal digit
Digit(d) == <<"0", "1", "2", "3", "4", "5", "6", "7", "8", "9">>[d + 1]

\* oss << (uint64_t) n: the decimal digits of n, most significant first
RECURSIVE Decimal(_)
Decimal(n) ==
    IF n < 10 THEN <<Digit(n)>> ELSE Append(Decimal(n \div 10), Digit(n % 10))

\* The three lines of one metric family, each line as its space-separated parts
Family(name, help, type, value) ==
    << <<"# HELP", name, help>>, <<"# TYPE", name, type>>, <<name, Decimal(value)>> >>

\* An exposition that writes the sent family before the received family.
Render_SentFirst(recv, sent, uniq, rx, tx) ==
    Family("udp_packets_sent_total", "Total UDP packets sent", "counter", sent)
    \o Family("udp_packets_received_total", "Total UDP packets received", "counter", recv)
    \o Family("udp_unique_clients", "Unique client count", "gauge", uniq)
    \o Family("udp_rx_bytes_total", "Total received bytes", "counter", rx)
    \o Family("udp_tx_bytes_total", "Total sent bytes", "counter", tx)

\* MetricsHttpServer::render for the values the five getters returned
Render(recv, sent, uniq, rx, tx) ==
    Family("udp_packets_received_total", "Total UDP packets received", "counter", recv)
    \o Family("udp_packets_sent_total", "Total UDP packets sent", "counter", sent)
    \o Family("udp_unique_clients", "Unique client count", "gauge", uniq)
    \o Family("udp_rx_bytes_total", "Total received bytes", "counter", rx)
    \o Family("udp_tx_bytes_total", "Total sent bytes", "counter", tx)

\* run(): accept() returned a connection; body = render(); the body is sent
MetricsScrape ==
    /\ IsServer /\ m_pc = "accept" /\ m_running
    /\ page' = Render(recv_, sent_, UniqueClients(clients_), rx_bytes_, tx_bytes_)
    /\ UNCHANGED <<cfgVars, unitVars, el, pkts,
                   lifeVars, metVars, statVars, srvVars, netVars,
                   cliVars, histVars, r_res, echoOut, work>>

\* ------------------------------------------------ the owner thread: server
\* th_ = std::thread(...): move-assigning to a joinable thread terminates
ThreadAssign(th) == IF th = "joinable" THEN "terminate" ELSE "spawned"

\* A stop() that does not test joinable().
Joinable_Always(th) == TRUE

\* if (th_.joinable())
Joinable(th) == th = "joinable"

\* UdpServer::start: metrics_->start(); running_ = true; th_ = std::thread(...)
ServerStart ==
    /\ IsServer /\ caller = "idle" /\ starts < MaxStarts
    /\ starts' = starts + 1
    /\ IF HasMetrics /\ ThreadAssign(m_th) = "terminate"
       THEN /\ terminated' = TRUE
            /\ lastOp' = "start_on_running"
            /\ UNCHANGED <<th_, running_, pc, metVars, last_recv_total>>
       ELSE /\ IF HasMetrics
               THEN m_th' = "joinable" /\ m_running' = TRUE /\ m_pc' = "accept"
               ELSE UNCHANGED metVars
            /\ running_' = TRUE
            /\ IF ThreadAssign(th_) = "terminate"
               THEN /\ terminated' = TRUE
                    /\ lastOp' = "start_on_running"
                    /\ UNCHANGED <<th_, pc, last_recv_total>>
               ELSE /\ th_' = "joinable" /\ pc' = "check"
                    /\ last_recv_total' = 0
                    /\ lastOp' = "start"
                    /\ UNCHANGED terminated
    /\ UNCHANGED <<cfgVars, unitVars, el, pkts,
                   page, r_res, echoOut, work,
                   caller, statVars, admitted_, last_rate_pps_, msgs,
                   idx, echo_msgs, w_sent, netVars, cliVars, seen, sentBy,
                   delivered>>

\* A thread other than the worker may call last_rate_pps(): the server is
\* constructed and its owner is not inside another member call.
LastRateReadable == IsServer /\ Constructed /\ caller = "idle"

\* double last_rate_pps() const { return last_rate_pps_; }: a plain read, no
\* lock, no atomic; it changes nothing
ServerLastRate ==
    /\ LastRateReadable
    /\ UNCHANGED vars

\* UdpServer::stop, up to the point where it blocks or returns
ServerStop ==
    /\ IsServer /\ caller = "idle"
    /\ IF Joinable(th_)
       THEN /\ running_' = FALSE /\ caller' = "stop_join" /\ lastOp' = "stop"
            /\ UNCHANGED metVars
       ELSE IF HasMetrics /\ Joinable(m_th)
       THEN /\ m_running' = FALSE /\ caller' = "mstop_join" /\ lastOp' = "stop"
            /\ UNCHANGED <<running_, m_th, m_pc>>
       ELSE /\ lastOp' = "stop_noop"
            /\ UNCHANGED <<running_, caller, metVars>>
    /\ UNCHANGED <<cfgVars, unitVars, el, pkts,
                   page, r_res, echoOut, work,
                   th_, pc, terminated, starts, statVars, srvVars,
                   netVars, cliVars, seen, sentBy, delivered>>

\* UdpServer::stop: th_.join() returns; then metrics_->stop()
ServerStopJoined ==
    /\ IsServer /\ caller = "stop_join" /\ pc = "done"
    /\ th_' = "none" /\ pc' = "none"
    /\ IF HasMetrics /\ Joinable(m_th)
       THEN m_running' = FALSE /\ caller' = "mstop_join" /\ UNCHANGED <<m_th, m_pc>>
       ELSE caller' = "idle" /\ UNCHANGED metVars
    /\ UNCHANGED <<cfgVars, unitVars, el, pkts,
                   page, r_res, echoOut, work,
                   running_, terminated, starts, statVars, srvVars,
                   netVars, cliVars, histVars>>

\* MetricsHttpServer::stop: th_.join() returns, and UdpServer::stop with it
ServerStopMetricsJoined ==
    /\ IsServer /\ caller = "mstop_join" /\ m_pc = "done"
    /\ m_th' = "none" /\ m_pc' = "none" /\ caller' = "idle"
    /\ UNCHANGED <<cfgVars, unitVars, el, pkts,
                   page, r_res, echoOut, work,
                   th_, running_, pc, terminated, starts, m_running,
                   statVars, srvVars, netVars, cliVars, histVars>>

\* ------------------------------------------------ UdpClient
\* A packet exactly as long as the configured payload.
PktSize_PayloadOnly(payload) == payload

\* std::max(cfg_.payload, (int)sizeof(PacketHeader))
PktSize(payload) == Max(payload, HeaderSize)

\* Results send_batch can give for n submitted datagrams
SendBatchResults(n) == {-1} \cup (0..n)

\* A run that lasts twice as long as configured.
Deadline_Doubled(seconds) == 2 * seconds

\* end = start + std::chrono::seconds(cfg_.seconds): ticks the run may last
Deadline(seconds) == seconds

\* A loop condition that does not read the run flag.
KeepGoing_IgnoresFlag(running, left) == left > 0

\* while (running_ && std::chrono::steady_clock::now() < end)
KeepGoing(running, left) == running /\ left > 0

\* A pacing step that sleeps whether or not the deadline has passed.
Sleeps_Always(behind) == TRUE

\* if (next_ts > now): `behind` is now - next_ts after next_ts was advanced
Sleeps(behind) == behind < 0

\* UdpClient::start: running_ = true; th_ = std::thread(...)
ClientStart ==
    /\ IsClient /\ caller = "idle" /\ starts < MaxStarts
    /\ starts' = starts + 1
    /\ running_' = TRUE
    /\ IF ThreadAssign(th_) = "terminate"
       THEN /\ terminated' = TRUE
            /\ lastOp' = "start_on_running"
            /\ UNCHANGED <<th_, pc, lag, t_end, work>>
       ELSE /\ th_' = "joinable" /\ pc' = "check"
            /\ lag' = 0 /\ t_end' = Deadline(cfg.seconds) /\ work' = 0
            /\ lastOp' = "start"
            /\ UNCHANGED terminated
    /\ UNCHANGED <<cfgVars, unitVars, el, pkts,
                   page, r_res, echoOut,
                   caller, metVars, statVars, srvVars, netVars, seq_,
                   s_res, seen, sentBy, delivered>>

\* UdpClient::stop, up to the point where it blocks or returns
ClientStop ==
    /\ IsClient /\ caller = "idle"
    /\ IF Joinable(th_)
       THEN running_' = FALSE /\ caller' = "stop_join" /\ lastOp' = "stop"
       ELSE lastOp' = "stop_noop" /\ UNCHANGED <<running_, caller>>
    /\ UNCHANGED <<cfgVars, unitVars, el, pkts,
                   page, r_res, echoOut, work,
                   th_, pc, terminated, starts, metVars, statVars,
                   srvVars, netVars, cliVars, seen, sentBy, delivered>>

\* A join() that requests a stop before waiting.
ClientJoin_Stops ==
    /\ IsClient /\ caller = "idle"
    /\ IF Joinable(th_)
       THEN running_' = FALSE /\ caller' = "join_wait" /\ lastOp' = "join"
       ELSE lastOp' = "join_noop" /\ UNCHANGED <<running_, caller>>
    /\ UNCHANGED <<cfgVars, unitVars, el, pkts,
                   auxVars, th_, pc, terminated, starts, metVars,
                   statVars, srvVars, netVars, cliVars, seen, sentBy, delivered>>

\* UdpClient::join, up to the point where it blocks or returns
ClientJoin ==
    /\ IsClient /\ caller = "idle"
    /\ IF Joinable(th_)
       THEN caller' = "join_wait" /\ lastOp' = "join"
       ELSE lastOp' = "join_noop" /\ UNCHANGED caller
    /\ UNCHANGED <<cfgVars, unitVars, el, pkts,
                   page, r_res, echoOut, work,
                   th_, running_, pc, terminated, starts, metVars,
                   statVars, srvVars, netVars, cliVars, seen, sentBy, delivered>>

\* th_.join() returns in stop() or join()
ClientJoined ==
    /\ IsClient /\ caller \in {"stop_join", "join_wait"} /\ pc = "done"
    /\ th_' = "none" /\ pc' = "none" /\ caller' = "idle"
    /\ UNCHANGED <<cfgVars, unitVars, el, pkts,
                   page, r_res, echoOut, work,
                   running_, terminated, starts, metVars, statVars,
                   srvVars, netVars, cliVars, histVars>>

\* while (running_ && std::chrono::steady_clock::now() < end)
CliLoopCheck ==
    /\ IsClient /\ pc = "check"
    /\ pc' = IF KeepGoing(running_, t_end) THEN "send" ELSE "done"
    /\ UNCHANGED <<cfgVars, unitVars, el, pkts,
                   page, r_res, echoOut, work,
                   th_, running_, caller, terminated, starts, metVars,
                   statVars, srvVars, netVars, cliVars, histVars>>

\* The sequence numbers of a batch of n packets built when the counter stands
\* at seq: each packet takes hdr->seq = ++seq_
BuildBatch_RestartsAtOne(seq, n) == [i \in 1..n |-> i]
BuildBatch(seq, n) == [i \in 1..n |-> seq + i]

\* build cfg_.batch packets (hdr->seq = ++seq_); s = sock_->send_batch(batch)
CliSend ==
    /\ IsClient /\ pc = "send"
    /\ pkts' = BuildBatch(seq_, cfg.batch)
    /\ seq_' = IF cfg.batch = 0 THEN seq_ ELSE pkts'[cfg.batch]
    /\ \E s \in SendBatchResults(cfg.batch) :
        /\ s_res' = s
        /\ pc' = IF s > 0 THEN "inc_sent" ELSE "pace"
    /\ UNCHANGED <<cfgVars, unitVars, el,
                   page, r_res, echoOut, work,
                   th_, running_, caller, terminated, starts, metVars,
                   statVars, srvVars, netVars, lag, t_end, histVars>>

\* A count of the submitted instead of the accepted datagrams.
CliIncSent_CountsBatch ==
    /\ IsClient /\ pc = "inc_sent"
    /\ sent_' = FetchAdd(sent_, cfg.batch)
    /\ pc' = "add_tx_bytes"
    /\ UNCHANGED <<cfgVars, unitVars, el, pkts,
                   auxVars, th_, running_, caller, terminated, starts,
                   metVars, recv_, rx_bytes_, tx_bytes_, clients_, srvVars,
                   netVars, cliVars, histVars>>

\* stats_.inc_sent(s)
CliIncSent ==
    /\ IsClient /\ pc = "inc_sent"
    /\ sent_' = FetchAdd(sent_, s_res)
    /\ pc' = "add_tx_bytes"
    /\ UNCHANGED <<cfgVars, unitVars, el, pkts,
                   page, r_res, echoOut, work,
                   th_, running_, caller, terminated, starts, metVars,
                   recv_, rx_bytes_, tx_bytes_, clients_, srvVars, netVars,
                   cliVars, histVars>>

\* for (auto& b: batch) total_bytes += b.size(); stats_.add_tx_bytes(total_bytes)
CliAddTxBytes ==
    /\ IsClient /\ pc = "add_tx_bytes"
    /\ tx_bytes_' = FetchAdd(tx_bytes_, cfg.batch * PktSize(cfg.payload))
    /\ pc' = "pace"
    /\ UNCHANGED <<cfgVars, unitVars, el, pkts,
                   page, r_res, echoOut, work,
                   th_, running_, caller, terminated, starts, metVars,
                   sent_, recv_, rx_bytes_, clients_, srvVars, netVars, cliVars,
                   histVars>>

\* next_ts += interval_ns * cfg_.batch; if (next_ts > now) clock_nanosleep(...)
CliPace ==
    /\ IsClient /\ pc = "pace"
    /\ lag' = lag - Period
    /\ pc' = IF Sleeps(lag - Period) THEN "sleep" ELSE "check"
    /\ s_res' = 0 /\ work' = 0
    /\ UNCHANGED <<cfgVars, unitVars, el, pkts,
                   page, r_res, echoOut,
                   th_, running_, caller, terminated, starts, metVars,
                   statVars, srvVars, netVars, seq_, t_end, histVars>>

\* clock_nanosleep returns once sleep_ns have passed
CliWake_Interruptible ==
    /\ IsClient /\ pc = "sleep" /\ (lag >= 0 \/ ~running_)
    /\ pc' = "check"
    /\ UNCHANGED <<cfgVars, unitVars, el, pkts,
                   page, r_res, echoOut, work,
                   th_, running_, caller, terminated, starts, metVars,
                   statVars, srvVars, netVars, cliVars, histVars>>

CliWake ==
    /\ IsClient /\ pc = "sleep" /\ lag >= 0
    /\ pc' = "check"
    /\ UNCHANGED <<cfgVars, unitVars, el, pkts,
                   page, r_res, echoOut, work,
                   th_, running_, caller, terminated, starts, metVars,
                   statVars, srvVars, netVars, cliVars, histVars>>

\* The monotonic clock advances by one tick while the worker is alive.
Tick ==
    /\ IsClient /\ pc \notin {"none", "done"}
    /\ t_end > 0 \/ lag < 0
    /\ lag' = lag + 1
    /\ t_end' = Max(t_end - 1, 0)
    /\ work' = IF pc = "sleep" THEN work ELSE Min(work + 1, Period)
    /\ UNCHANGED <<cfgVars, unitVars, el, pkts,
                   page, r_res, echoOut,
                   lifeVars, metVars, statVars, srvVars, netVars,
                   seq_, s_res, histVars>>

\* ------------------------------------------------------- specification
ServerWorker ==
    \/ SrvLoopCheck \/ SrvRecvmmsg \/ SrvAdmit \/ SrvNoteClient \/ SrvIncRecv
    \/ SrvAddRxBytes \/ SrvSendmmsg \/ SrvAddTxBytes \/ SrvRecvBatch
    \/ SrvFbIncRecv \/ SrvFbAddRxBytes \/ SrvRateTick \/ SrvRateSample

ClientWorker ==
    \/ CliLoopCheck \/ CliSend \/ CliIncSent \/ CliAddTxBytes \/ CliPace
    \/ CliWake

Next ==
    \/ Construct
    \/ PeerSend
    \/ ServerStart \/ ServerStop \/ ServerStopJoined \/ ServerStopMetricsJoined
    \/ ServerLastRate
    \/ ServerWorker
    \/ MetricsAccept
    \/ ClientStart \/ ClientStop \/ ClientJoin \/ ClientJoined
    \/ ClientWorker
    \/ Tick

Spec == Init /\ [][Next]_vars

\* The scheduler runs every live thread; the clock advances; a blocked join
\* returns once its thread has exited.  No scraper is obliged to connect.
FairSpec ==
    /\ Spec
    /\ WF_vars(ServerWorker) /\ WF_vars(ClientWorker) /\ WF_vars(Tick)
    /\ WF_vars(ServerStopJoined) /\ WF_vars(ServerStopMetricsJoined)
    /\ WF_vars(ClientJoined)

\* The client executable alone, with the scheduling its threads can rely on.
ClientInit == Init /\ kind = "client"

ClientNext ==
    \/ Construct
    \/ ClientStart \/ ClientStop \/ ClientJoin \/ ClientJoined
    \/ ClientWorker
    \/ Tick

ClientSpec == ClientInit /\ [][ClientNext]_vars

ClientFairSpec ==
    /\ ClientSpec
    /\ WF_vars(ClientWorker) /\ WF_vars(Tick) /\ WF_vars(ClientJoined)

\* The exposition examined on its own: a Running server with metrics enabled
\* whose counters hold values drawn from small sets, and one scrape of it.
RenderCounters ==
    [recv : {2, 10, 100}, sent : {0, 4}, rx : {128, 640}, tx : {0, 256},
     keys : SUBSET {KeyOf(p) : p \in Peers}]

RenderInit ==
    /\ kind = "server"
    /\ cfg = [max_clients |-> MaxCap, echo |-> TRUE,
              metrics_port |-> MetricsPortDefault, fd |-> RealFd, batch |-> Batch]
    /\ th_ = "joinable" /\ running_ = TRUE /\ pc = "check" /\ caller = "idle"
    /\ terminated = FALSE /\ starts = 1
    /\ m_th = "joinable" /\ m_running = TRUE /\ m_pc = "accept"
    /\ \E c \in RenderCounters :
        /\ recv_ = c.recv /\ sent_ = c.sent
        /\ rx_bytes_ = c.rx /\ tx_bytes_ = c.tx
        /\ clients_ = [k \in c.keys |-> 1]
    /\ admitted_ = {} /\ last_rate_pps_ = 0 /\ last_recv_total = 0
    /\ msgs = <<>> /\ idx = 0 /\ echo_msgs = <<>> /\ w_sent = 0
    /\ net = <<>> /\ nsent = 0
    /\ seq_ = 0 /\ lag = 0 /\ t_end = 0 /\ s_res = 0
    /\ seen = <<>> /\ sentBy = [p \in Peers |-> <<>>] /\ delivered = 0
    /\ lastOp = "start"
    /\ page = <<>> /\ r_res = 0 /\ echoOut = <<>> /\ work = 0
    /\ el = 0 /\ pkts = <<>> /\ sock = NoUnit /\ st = NoUnit /\ argv = NoUnit

RenderNext == MetricsScrape

RenderSpec == RenderInit /\ [][RenderNext]_vars

\* The receive path of a server on a kernel socket (no echo, no metrics) fed
\* with conforming and non-conforming datagrams.
WireInit ==
    /\ Init /\ kind = "server"
    /\ cfg.fd = RealFd /\ ~cfg.echo /\ cfg.metrics_port = 0

WireWorker ==
    \/ SrvLoopCheck \/ SrvRecvmmsg \/ SrvAdmit \/ SrvNoteClient \/ SrvIncRecv
    \/ SrvAddRxBytes \/ SrvRateTick \/ SrvRateSample

WireNext ==
    \/ Construct
    \/ PeerSend \/ PeerSendMalformed
    \/ ServerStart \/ ServerStop \/ ServerStopJoined
    \/ WireWorker

WireSpec == WireInit /\ [][WireNext]_vars

\* ------------------------------------------------ objects on their own
\* No server or client exists: every variable of the engines keeps its
\* construction-time value.
NoEngine ==
    /\ kind = "unit" /\ cfg = NoUnit
    /\ th_ = "none" /\ running_ = FALSE /\ pc = "none" /\ caller = "new"
    /\ terminated = FALSE /\ starts = 0
    /\ m_th = "none" /\ m_running = FALSE /\ m_pc = "none"
    /\ admitted_ = {} /\ last_rate_pps_ = 0 /\ last_recv_total = 0
    /\ msgs = <<>> /\ idx = 0 /\ echo_msgs = <<>> /\ w_sent = 0
    /\ net = <<>> /\ nsent = 0
    /\ seq_ = 0 /\ lag = 0 /\ t_end = 0 /\ s_res = 0
    /\ seen = <<>> /\ sentBy = [p \in Peers |-> <<>>] /\ delivered = 0
    /\ lastOp = "none"
    /\ page = <<>> /\ r_res = 0 /\ echoOut = <<>> /\ work = 0
    /\ el = 0 /\ pkts = <<>>

engineVars ==
    <<cfgVars, lifeVars, metVars, srvVars, netVars, cliVars, histVars, auxVars,
      el, pkts>>

\* ------------------------------------------------ Stats under concurrency
Threads == 1..NumThreads

\* The calls a thread can make on a Stats object
StatsCalls ==
    {[op |-> "inc_sent", n |-> 1], [op |-> "inc_recv", n |-> 1],
     [op |-> "add_rx_bytes", n |-> SmallPayload],
     [op |-> "add_tx_bytes", n |-> SmallPayload]}
    \cup {[op |-> "note_client", key |-> KeyOf(p)] : p \in Peers}

\* A Stats object whose mutex admits everybody.
MutexFree_NoMutex(mu) == TRUE

\* std::lock_guard<std::mutex> lg(mu_) can be constructed: nobody holds mu_
MutexFree(mu) == mu = 0

\* The value clients_[key] has when `++` reads it: operator[] inserts 0
Hits(cl, key) == IF key \in DOMAIN cl THEN cl[key] ELSE 0

\* The map after `++` writes v back to clients_[key]
StoreHits(cl, key, v) ==
    IF key \in DOMAIN cl THEN [cl EXCEPT ![key] = v] ELSE cl @@ (key :> v)

StatsInit ==
    /\ NoEngine
    /\ sent_ = 0 /\ recv_ = 0 /\ rx_bytes_ = 0 /\ tx_bytes_ = 0
    /\ clients_ = <<>>
    /\ sock = NoUnit /\ argv = NoUnit
    /\ st = [unit |-> "stats",
             at |-> [t \in Threads |-> "idle"],
             key |-> [t \in Threads |-> <<0, 0>>],
             tmp |-> [t \in Threads |-> 0],
             calls |-> [t \in Threads |-> 0],
             mu |-> 0,
             issued |-> [sent |-> 0, recv |-> 0, rx |-> 0, tx |-> 0],
             noted |-> <<>>]

\* Thread t calls inc_sent / inc_recv / add_rx_bytes / add_tx_bytes: one
\* atomic fetch_add
StatsAdd(t) ==
    /\ st.unit = "stats" /\ st.at[t] = "idle" /\ st.calls[t] < MaxCalls
    /\ \E c \in {x \in StatsCalls : x.op # "note_client"} :
        /\ sent_' = IF c.op = "inc_sent" THEN FetchAdd(sent_, c.n) ELSE sent_
        /\ recv_' = IF c.op = "inc_recv" THEN FetchAdd(recv_, c.n) ELSE recv_
        /\ rx_bytes_' = IF c.op = "add_rx_bytes" THEN FetchAdd(rx_bytes_, c.n)
                        ELSE rx_bytes_
        /\ tx_bytes_' = IF c.op = "add_tx_bytes" THEN FetchAdd(tx_bytes_, c.n)
                        ELSE tx_bytes_
        /\ st' = [st EXCEPT
                    !.calls[t] = @ + 1,
                    !.issued.sent = IF c.op = "inc_sent" THEN @ + c.n ELSE @,
                    !.issued.recv = IF c.op = "inc_recv" THEN @ + c.n ELSE @,
                    !.issued.rx = IF c.op = "add_rx_bytes" THEN @ + c.n ELSE @,
                    !.issued.tx = IF c.op = "add_tx_bytes" THEN @ + c.n ELSE @]
    /\ UNCHANGED <<engineVars, clients_, sock, argv>>

\* Thread t enters note_client(addr, port)
StatsNoteCall(t) ==
    /\ st.unit = "stats" /\ st.at[t] = "idle" /\ st.calls[t] < MaxCalls
    /\ \E c \in {x \in StatsCalls : x.op = "note_client"} :
        st' = [st EXCEPT !.calls[t] = @ + 1, !.at[t] = "lock", !.key[t] = c.key,
                         !.noted = NoteClient(@, c.key)]
    /\ UNCHANGED <<engineVars, statVars, sock, argv>>

\* std::lock_guard<std::mutex> lg(mu_)
StatsLock(t) ==
    /\ st.unit = "stats" /\ st.at[t] = "lock" /\ MutexFree(st.mu)
    /\ st' = [st EXCEPT !.mu = t, !.at[t] = "read"]
    /\ UNCHANGED <<engineVars, statVars, sock, argv>>

\* clients_[key]++ reads the mapped value
StatsRead(t) ==
    /\ st.unit = "stats" /\ st.at[t] = "read"
    /\ st' = [st EXCEPT !.tmp[t] = Hits(clients_, st.key[t]), !.at[t] = "write"]
    /\ UNCHANGED <<engineVars, statVars, sock, argv>>

\* clients_[key]++ writes the value back; lg goes out of scope
StatsWrite(t) ==
    /\ st.unit = "stats" /\ st.at[t] = "write"
    /\ clients_' = StoreHits(clients_, st.key[t], st.tmp[t] + 1)
    /\ st' = [st EXCEPT !.mu = IF @ = t THEN 0 ELSE @, !.at[t] = "idle",
                         !.tmp[t] = 0, !.key[t] = <<0, 0>>]
    /\ UNCHANGED <<engineVars, sent_, recv_, rx_bytes_, tx_bytes_, sock, argv>>

StatsNext ==
    \E t \in Threads :
        \/ StatsAdd(t) \/ StatsNoteCall(t) \/ StatsLock(t)
        \/ StatsRead(t) \/ StatsWrite(t)

StatsSpec == StatsInit /\ [][StatsNext]_vars

\* ------------------------------------------------ the sockets on their own
\* A send_batch that ignores whether a destination exists.
UdpSendBatch_NoDestCheck(connected, hasDest, n) == SendBatchResults(n)

\* UdpSocket::send_batch with n >= 1 buffers: with no connected peer msg_name
\* is the given address; a null address leaves sendmmsg without destination,
\* it fails with EDESTADDRREQ and send_batch returns -1
UdpSendBatch(connected, hasDest, n) ==
    IF ~connected /\ ~hasDest THEN {-1} ELSE SendBatchResults(n)

\* A send_batch that reports one buffer fewer than it recorded.
MockSendBatch_OneShort(n) == n - 1

\* MockSocket::send_batch: the address is ignored, every buffer is recorded
MockSendBatch(n) == n

\* What recv_batch copies of datagram d into a buffer of BufSize bytes
Copied(d) == [id |-> d.id, len |-> Min(BufSize, d.len)]

SockInit ==
    /\ NoEngine
    /\ sent_ = 0 /\ recv_ = 0 /\ rx_bytes_ = 0 /\ tx_bytes_ = 0
    /\ clients_ = <<>>
    /\ st = NoUnit /\ argv = NoUnit
    /\ \E v \in {"udp", "mock"} :
        sock = [unit |-> "sock", variant |-> v, connected |-> FALSE,
                rx_store |-> <<>>, recv_cursor |-> 0, tx_store |-> <<>>,
                call |-> "none", nbufs |-> 0, hasDest |-> FALSE, res |-> 0,
                got |-> <<>>]

\* connect(ip, port): UdpSocket sets connected_; MockSocket's body is empty
\* (the field then only remembers that connect() was called)
SockConnect ==
    /\ sock.unit = "sock" /\ ~sock.connected
    /\ sock' = [sock EXCEPT !.connected = TRUE, !.call = "connect"]
    /\ UNCHANGED <<engineVars, statVars, st, argv>>

\* MockSocket::preload_recv(pkt): rx_store_.push_back(pkt)
SockPreload ==
    /\ sock.unit = "sock" /\ sock.variant = "mock"
    /\ Len(sock.rx_store) < MaxStore
    /\ \E sz \in Sizes :
        sock' = [sock EXCEPT
                   !.rx_store = Append(@, [id |-> Len(@) + 1, len |-> sz]),
                   !.call = "preload_recv"]
    /\ UNCHANGED <<engineVars, statVars, st, argv>>

\* MockSocket::recv_batch(bufs) with n buffers of BufSize bytes
SockRecvBatch ==
    /\ sock.unit = "sock" /\ sock.variant = "mock"
    /\ \E n \in 0..Batch :
        LET rest == SubSeq(sock.rx_store, sock.recv_cursor + 1, Len(sock.rx_store))
            r == MockRecvBatch(rest, n)
        IN sock' = [sock EXCEPT
                      !.recv_cursor = @ + r,
                      !.got = @ \o [k \in 1..r |-> Copied(rest[k])],
                      !.call = "recv_batch", !.nbufs = n, !.res = r]
    /\ UNCHANGED <<engineVars, statVars, st, argv>>

\* send_batch(bufs, addr) with n buffers; hasDest: addr is not null
SockSendBatch ==
    /\ sock.unit = "sock" /\ Len(sock.tx_store) < MaxStore
    /\ \E n \in 1..Batch, d \in BOOLEAN :
        \E r \in (IF sock.variant = "udp"
                  THEN UdpSendBatch(sock.connected, d, n)
                  ELSE {MockSendBatch(n)}) :
            sock' = [sock EXCEPT
                       !.tx_store = @ \o [k \in 1..Max(r, 0) |-> SmallPayload],
                       !.call = "send_batch", !.nbufs = n, !.hasDest = d,
                       !.res = r]
    /\ UNCHANGED <<engineVars, statVars, st, argv>>

SockNext == SockConnect \/ SockPreload \/ SockRecvBatch \/ SockSendBatch

SockSpec == SockInit /\ [][SockNext]_vars

\* ------------------------------------------------ the server executable
\* A command-line word: its text as strcmp sees it, its value as atoi reads it
Word(text, val) == [text |-> text, val |-> val]

ArgWords ==
    {Word("--max-clients", 0), Word("--batch", 0), Word("--metrics-port", 0),
     Word("--echo", 0)}
    \cup {Word("number", n) : n \in {0, MaxCap, Batch}}

RECURSIVE ArgLists(_)
ArgLists(n) ==
    IF n = 0 THEN {<<>>}
    ELSE ArgLists(n - 1)
         \cup {Append(a, w) : a \in {x \in ArgLists(n - 1) : Len(x) = n - 1},
                              w \in ArgWords}

\* ServerConfig cfg; as main passes it to the server, on a kernel socket
DefaultServerConfig ==
    [max_clients |-> DefaultMaxClients, echo |-> FALSE,
     metrics_port |-> MetricsPortDefault, fd |-> RealFd, batch |-> DefaultBatch]

\* main's option loop from word i on: --batch and --metrics-port take the
\* next word, --echo sets the flag, any other word matches no branch
RECURSIVE ParseArgs(_, _, _)
ParseArgs(args, i, c) ==
    IF i > Len(args) THEN c
    ELSE IF args[i].text = "--batch" /\ i + 1 <= Len(args)
         THEN ParseArgs(args, i + 2, [c EXCEPT !.batch = args[i + 1].val])
    ELSE IF args[i].text = "--metrics-port" /\ i + 1 <= Len(args)
         THEN ParseArgs(args, i + 2,
                        [c EXCEPT !.metrics_port = args[i + 1].val % 65536])
    ELSE IF args[i].text = "--echo"
         THEN ParseArgs(args, i + 1, [c EXCEPT !.echo = TRUE])
    ELSE ParseArgs(args, i + 1, c)

MainInit ==
    /\ NoEngine
    /\ sent_ = 0 /\ recv_ = 0 /\ rx_bytes_ = 0 /\ tx_bytes_ = 0
    /\ clients_ = <<>>
    /\ st = NoUnit /\ sock = NoUnit
    /\ \E a \in ArgLists(MaxArgs) : argv = [unit |-> "main", args |-> a]

\* main: ServerConfig cfg; the option loop; cfg goes to UdpServer's constructor
MainParse ==
    /\ argv.unit = "main" /\ kind = "unit"
    /\ cfg' = ParseArgs(argv.args, 1, DefaultServerConfig)
    /\ kind' = "server"
    /\ UNCHANGED <<lifeVars, metVars, statVars, srvVars, netVars, cliVars,
                   histVars, auxVars, unitVars, el, pkts>>

MainNext == MainParse

MainSpec == MainInit /\ [][MainNext]_vars

\* ------------------------------------------------ a client on a MockSocket
\* cfg_.payload values: negative, 0, below, at and above the header size
Payloads == {-1, 0, ShortPayload, HeaderSize, SmallPayload}

\* One packet of the batch: a zero-filled buffer of PktSize bytes whose header
\* holds seq, send_ts_ns and magic = kMagic
BuildPacket(seq, payload) ==
    [seq |-> seq, size |-> PktSize(payload), magic |-> kMagic]

\* A constructed UdpClient that owns a MockSocket (connect() has been called).
MockClientInit ==
    /\ kind = "client"
    /\ cfg \in [seconds : {Seconds}, batch : {Batch}, payload : Payloads]
    /\ th_ = "none" /\ running_ = FALSE /\ pc = "none" /\ caller = "idle"
    /\ terminated = FALSE /\ starts = 0
    /\ m_th = "none" /\ m_running = FALSE /\ m_pc = "none"
    /\ sent_ = 0 /\ recv_ = 0 /\ rx_bytes_ = 0 /\ tx_bytes_ = 0
    /\ clients_ = <<>>
    /\ admitted_ = {} /\ last_rate_pps_ = 0 /\ last_recv_total = 0
    /\ msgs = <<>> /\ idx = 0 /\ echo_msgs = <<>> /\ w_sent = 0
    /\ net = <<>> /\ nsent = 0
    /\ seq_ = 0 /\ lag = 0 /\ t_end = 0 /\ s_res = 0
    /\ seen = <<>> /\ sentBy = [p \in Peers |-> <<>>] /\ delivered = 0
    /\ lastOp = "ctor"
    /\ page = <<>> /\ r_res = 0 /\ echoOut = <<>> /\ work = 0
    /\ el = 0 /\ pkts = <<>> /\ st = NoUnit /\ argv = NoUnit
    /\ sock = [unit |-> "sock", variant |-> "mock", connected |-> TRUE,
               rx_store |-> <<>>, recv_cursor |-> 0, tx_store |-> <<>>,
               call |-> "connect", nbufs |-> 0, hasDest |-> FALSE, res |-> 0,
               got |-> <<>>]

\* build cfg_.batch packets; s = sock_->send_batch(batch) on the MockSocket
CliSendMock ==
    /\ IsClient /\ pc = "send" /\ sock.unit = "sock" /\ sock.variant = "mock"
    /\ pkts' = BuildBatch(seq_, cfg.batch)
    /\ seq_' = IF cfg.batch = 0 THEN seq_ ELSE pkts'[cfg.batch]
    /\ LET s == MockSendBatch(cfg.batch)
       IN /\ s_res' = s
          /\ pc' = IF s > 0 THEN "inc_sent" ELSE "pace"
          /\ sock' = [sock EXCEPT
                        !.tx_store = @ \o [k \in 1..cfg.batch |->
                                             BuildPacket(pkts'[k], cfg.payload)],
                        !.call = "send_batch", !.nbufs = cfg.batch,
                        !.hasDest = FALSE, !.res = s]
    /\ UNCHANGED <<cfgVars, st, argv, el,
                   page, r_res, echoOut, work,
                   th_, running_, caller, terminated, starts, metVars,
                   statVars, srvVars, netVars, lag, t_end, histVars>>

MockClientWorker ==
    \/ CliLoopCheck \/ CliSendMock \/ CliIncSent \/ CliAddTxBytes \/ CliPace
    \/ CliWake

MockClientNext ==
    \/ ClientStart \/ ClientStop \/ ClientJoin \/ ClientJoined
    \/ MockClientWorker
    \/ Tick

MockClientSpec == MockClientInit /\ [][MockClientNext]_vars

\* ------------------------------------------------ render beside the worker
\* What the five getters return, in the order render() calls them: recv(),
\* sent(), unique_clients(), rx_bytes(), tx_bytes()
Getters == <<recv_, sent_, UniqueClients(clients_), rx_bytes_, tx_bytes_>>

\* A getter that answers 0 whatever the counter holds.
Getter_Zero(k, now) == 0

\* The k-th getter of render(): an atomic load, or clients_.size() under mu_
Getter(k, now) == now[k]

\* A Running server on a kernel socket with metrics on (echo off); the metrics
\* thread waits in accept().
ScrapeInit ==
    /\ kind = "server"
    /\ cfg = [max_clients |-> MaxCap, echo |-> FALSE,
              metrics_port |-> MetricsPortDefault, fd |-> RealFd, batch |-> Batch]
    /\ th_ = "joinable" /\ running_ = TRUE /\ pc = "check" /\ caller = "idle"
    /\ terminated = FALSE /\ starts = 1
    /\ m_th = "joinable" /\ m_running = TRUE /\ m_pc = "accept"
    /\ sent_ = 0 /\ recv_ = 0 /\ rx_bytes_ = 0 /\ tx_bytes_ = 0
    /\ clients_ = <<>>
    /\ admitted_ = {} /\ last_rate_pps_ = 0 /\ last_recv_total = 0
    /\ msgs = <<>> /\ idx = 0 /\ echo_msgs = <<>> /\ w_sent = 0
    /\ net = <<>> /\ nsent = 0
    /\ seq_ = 0 /\ lag = 0 /\ t_end = 0 /\ s_res = 0
    /\ seen = <<>> /\ sentBy = [p \in Peers |-> <<>>] /\ delivered = 0
    /\ lastOp = "start"
    /\ page = <<>> /\ r_res = 0 /\ echoOut = <<>> /\ work = 0
    /\ el = 0 /\ pkts = <<>> /\ sock = NoUnit /\ argv = NoUnit
    /\ st = [unit |-> "render", vals |-> <<>>, lo |-> <<>>]

\* run(): accept() returned a connection; render() is entered
RenderBegin ==
    /\ IsServer /\ st.unit = "render" /\ m_pc = "accept" /\ m_running
    /\ m_pc' = "render"
    /\ st' = [st EXCEPT !.vals = <<>>, !.lo = Getters]
    /\ page' = <<>>
    /\ UNCHANGED <<cfgVars, sock, argv, el, pkts, r_res, echoOut, work,
                   lifeVars, m_th, m_running, statVars, srvVars, netVars,
                   cliVars, histVars>>

\* render(): oss << stats_.<getter>() for the next of the five metrics
RenderRead ==
    /\ IsServer /\ st.unit = "render" /\ m_pc = "render" /\ Len(st.vals) < 5
    /\ st' = [st EXCEPT !.vals = Append(@, Getter(Len(@) + 1, Getters))]
    /\ UNCHANGED <<cfgVars, sock, argv, el, pkts, auxVars,
                   lifeVars, metVars, statVars, srvVars, netVars,
                   cliVars, histVars>>

\* render() returns oss.str(); the body is sent and the connection closed
RenderDone ==
    /\ IsServer /\ st.unit = "render" /\ m_pc = "render" /\ Len(st.vals) = 5
    /\ page' = Render(st.vals[1], st.vals[2], st.vals[3], st.vals[4], st.vals[5])
    /\ m_pc' = "accept"
    /\ st' = [st EXCEPT !.vals = <<>>, !.lo = <<>>]
    /\ UNCHANGED <<cfgVars, sock, argv, el, pkts, r_res, echoOut, work,
                   lifeVars, m_th, m_running, statVars, srvVars, netVars,
                   cliVars, histVars>>

ScrapeWorker ==
    \/ SrvLoopCheck \/ SrvRecvmmsg \/ SrvAdmit \/ SrvNoteClient \/ SrvIncRecv
    \/ SrvAddRxBytes \/ SrvRateTick \/ SrvRateSample

ScrapeNext ==
    \/ PeerSend
    \/ ScrapeWorker
    \/ RenderBegin \/ RenderRead \/ RenderDone

ScrapeSpec == ScrapeInit /\ [][ScrapeNext]_vars

\* ------------------------------------------------------------- properties
OnIdentityPath == kind = "server" /\ cfg.fd >= 0

OnDegradedPath == kind = "server" /\ cfg.fd = MockFd

\* The worker is between two messages of a batch (none half processed).
BetweenMessages == pc \notin {"note_client", "inc_recv", "add_rx_bytes"}

\* Every datagram sent so far has been received and fully processed.
AllProcessed == net = <<>> /\ pc # "admit" /\ BetweenMessages

Senders == {p \in Peers : sentBy[p] # <<>>}

AdmittedPeers == {p \in Peers : KeyOf(p) \in admitted_}

\* The first n entries of a sequence, as a set
FirstOf(q, n) == {q[k] : k \in 1..Min(n, Len(q))}

\* C1: on the source-identity path the admission set never holds more than
\* max_clients identities, in every reachable state (max_clients = 0 included).
C1_AdmissionBounded ==
    OnIdentityPath => Cardinality(admitted_) <= cfg.max_clients

\* C1 witness: the set is full and a further identity has been turned away.
C1_Witness ==
    /\ OnIdentityPath /\ cfg.max_clients >= 1
    /\ Cardinality(admitted_) = cfg.max_clients
    /\ Len(seen) > cfg.max_clients

\* The datagram under the admission check comes from an identity that is not
\* admitted while the set already holds max_clients identities.
DropCase ==
    /\ OnIdentityPath /\ pc = "admit"
    /\ msgs[idx].key \notin admitted_
    /\ Cardinality(admitted_) >= cfg.max_clients

\* C2: processing a datagram from an unadmitted identity while the set is full
\* finishes with that datagram: the four counters, the identity map, the
\* admission set and the echo queue are all unchanged.
C2_DropChangesNothing ==
    [][(DropCase /\ SrvAdmit) =>
         /\ idx' = idx + 1
         /\ pc' \in {"admit", "sendmmsg", "tick"}
         /\ UNCHANGED <<sent_, recv_, rx_bytes_, tx_bytes_, clients_, admitted_,
                        echo_msgs>>]_vars

\* C2 witness: with echo on, a batch has been finished in which one datagram
\* was served and another was dropped.
C2_Witness ==
    /\ OnIdentityPath /\ cfg.echo /\ pc = "check" /\ net = <<>>
    /\ recv_ >= 1 /\ recv_ < delivered

\* The scenario of C3: n > max_clients distinct peers have sent exactly one
\* datagram each and all of them have been processed.
OneEachScenario ==
    /\ OnIdentityPath
    /\ \A p \in Senders : Len(sentBy[p]) = 1
    /\ Cardinality(Senders) > cfg.max_clients
    /\ AllProcessed

\* C3 as stated: received = m, unique clients = m, and received bytes = the sum
\* of the sizes of the m admitted datagrams.
C3_Original ==
    OneEachScenario =>
        /\ recv_ = cfg.max_clients
        /\ UniqueClients(clients_) = cfg.max_clients
        /\ rx_bytes_ = SumOver([p \in Peers |-> sentBy[p][1]], AdmittedPeers)

\* C3 amended: received = m, unique clients = m, and received bytes = the sum
\* over the m admitted datagrams of min(size, 2048), the bytes that fit the
\* receive buffer.
C3_OnlyAdmittedCounted ==
    OneEachScenario =>
        /\ recv_ = cfg.max_clients
        /\ UniqueClients(clients_) = cfg.max_clients
        /\ Cardinality(AdmittedPeers) = cfg.max_clients
        /\ rx_bytes_ = SumOver([p \in Peers |-> Min(sentBy[p][1], BufSize)],
                               AdmittedPeers)

\* C3 witness: the scenario with a non-zero cap, where an admitted datagram
\* was longer than the receive buffer.
C3_Witness ==
    /\ OneEachScenario /\ cfg.max_clients >= 1
    /\ \E p \in AdmittedPeers : sentBy[p][1] > BufSize

\* C4: an identity once in the admission set stays in it over every step
\* (stop() and a later start() included), and a later datagram from it passes
\* the admission check and goes on to be counted even when the set is full.
C4_MembershipPermanent ==
    [][/\ admitted_ \subseteq admitted_'
       /\ (OnIdentityPath /\ SrvAdmit /\ msgs[idx].key \in admitted_) =>
             (pc' = "note_client" /\ idx' = idx)]_vars

\* C4 witness: after a restart, with the set full, a further datagram of an
\* identity that was counted before is being served.
C4_Witness ==
    /\ OnIdentityPath /\ starts = 2 /\ pc = "note_client"
    /\ cfg.max_clients >= 1 /\ Cardinality(admitted_) = cfg.max_clients
    /\ msgs[idx].key \in DOMAIN clients_

\* The admission set is the first min(max_clients, d) distinct identities.
FirstComeAdmitted ==
    OnIdentityPath => admitted_ = FirstOf(seen, cfg.max_clients)

\* C5: the admission set always equals the set of the first
\* min(max_clients, d) distinct identities in receive order, and a new identity
\* is admitted exactly when the set is below max_clients as it is processed.
C5_FirstComeFirstAdmitted ==
    /\ FirstComeAdmitted
    /\ [][/\ FirstComeAdmitted'
          /\ (OnIdentityPath /\ SrvAdmit /\ msgs[idx].key \notin admitted_) =>
                /\ (msgs[idx].key \in admitted_') =
                      (Cardinality(admitted_) < cfg.max_clients)
                /\ (pc' = "note_client") = (msgs[idx].key \in admitted_')]_vars

\* C5 witness: more distinct identities were seen than the cap admits.
C5_Witness ==
    /\ OnIdentityPath /\ cfg.max_clients >= 1
    /\ Len(seen) > cfg.max_clients /\ admitted_ # {}

\* Datagrams of the current batch that the fallback loop has yet to count
FbPending ==
    IF pc = "fb_inc_recv" THEN Len(msgs) - idx + 1
    ELSE IF pc = "fb_add_rx_bytes" THEN Len(msgs) - idx
    ELSE 0

\* C6: in the degraded mode every datagram recv_batch returned is counted
\* exactly once, whatever max_clients is and however many peers there are.
C6_DegradedCountsAll ==
    OnDegradedPath => recv_ = delivered - FbPending

\* C6 witness: max_clients = 0, two distinct peers, both datagrams counted.
C6_Witness ==
    /\ OnDegradedPath /\ cfg.max_clients = 0 /\ pc = "check"
    /\ Cardinality(Senders) >= 2 /\ recv_ = nsent /\ net = <<>>

\* A public start() call, on either engine
StartCall == ServerStart \/ ClientStart

\* A public stop() call, on either engine
StopCall == ServerStop \/ ClientStop

\* The engine is Running: its worker thread exists and has not left run_loop.
EngineRunning == th_ = "joinable" /\ pc # "done"

\* C7: start() on an engine that is already Running is a no-op: the process
\* goes on, no thread is created, the worker keeps its place, and counters,
\* admission set and run flag are unchanged.
C7_StartOnRunningIsNoOp ==
    [][(EngineRunning /\ StartCall) =>
         /\ terminated' = FALSE
         /\ UNCHANGED <<th_, running_, pc, m_th, m_pc, statVars, admitted_>>]_vars

\* C8: stop() on an engine that is Idle or Stopped returns at once and changes
\* nothing: counters, identity map, admission set, last rate, run flag and
\* threads are as before.
C8_StopOnIdleIsNoOp ==
    [][(th_ = "none" /\ StopCall) =>
         /\ caller' = "idle"
         /\ UNCHANGED <<statVars, admitted_, last_rate_pps_, th_, running_, pc,
                        metVars, terminated>>]_vars

\* C8 witness: stop() was called on a Stopped engine whose counters are not 0.
C8_Witness ==
    /\ lastOp = "stop_noop" /\ starts >= 1 /\ th_ = "none" /\ caller = "idle"
    /\ recv_ > 0 \/ sent_ > 0

\* C9: once stop() has been called on a Running engine, the worker leaves
\* run_loop and stop() returns.
C9_StopReturns == (caller = "stop_join") ~> (caller = "idle")

\* The part of C9 that is about the worker alone: it observes the cleared run
\* flag and leaves run_loop, whatever the socket does.
C9_WorkerExits == (caller = "stop_join") ~> (pc \in {"done", "none"})

\* C10: over every step (start, loop steps, stop, restart) none of the four
\* counters decreases.
C10_CountersMonotonic ==
    [][/\ sent_' >= sent_ /\ recv_' >= recv_
       /\ rx_bytes_' >= rx_bytes_ /\ tx_bytes_' >= tx_bytes_]_vars

\* C10 witness: an engine stopped after its second start holds counters that
\* were raised more than once.
C10_Witness ==
    /\ starts = 2 /\ th_ = "none" /\ caller = "idle" /\ lastOp = "stop"
    /\ \/ recv_ >= 2 /\ rx_bytes_ > BufSize
       \/ sent_ >= 2 /\ tx_bytes_ > 0

\* C11: join() never touches the run flag, returns only once the worker has
\* left run_loop, and (finite duration, the owner blocked in join() so stop()
\* is not called) does return, after the duration has elapsed.
C11_JoinWaitsForWorker ==
    /\ [][/\ (caller = "join_wait" \/ caller' = "join_wait") => running_' = running_
          /\ (caller = "join_wait" /\ caller' = "idle") =>
                (pc = "done" /\ th_' = "none" /\ t_end = 0)]_vars
    /\ (caller = "join_wait") ~> (caller = "idle" /\ t_end = 0)

\* C11 witness: join() has returned from a run that sent datagrams for the
\* whole duration, and the run flag is still set.
C11_Witness ==
    /\ kind = "client" /\ lastOp = "join" /\ caller = "idle" /\ th_ = "none"
    /\ running_ /\ t_end = 0 /\ sent_ > 0

\* C12: the loop condition lets an iteration start exactly when the run flag is
\* set and the duration has not elapsed; a batch is built only in an iteration
\* that passed it, and a worker that left the loop builds no more.
C12_LoopEndsOnDeadlineOrStop ==
    [][kind = "client" =>
         /\ (pc = "check" /\ pc' # pc) =>
               pc' = (IF running_ /\ t_end > 0 THEN "send" ELSE "done")
         /\ (seq_' # seq_) => (pc = "send" /\ seq_' = seq_ + cfg.batch)
         /\ (pc = "done") => (pc' \in {"done", "none"})]_vars

\* C12 witness: the worker left the loop because stop() cleared the flag, with
\* time left and after it had sent.
C12_Witness ==
    /\ kind = "client" /\ pc = "done" /\ ~running_ /\ t_end > 0 /\ sent_ > 0

\* The pacing step of the client loop
CliPaceStep == kind = "client" /\ pc = "pace" /\ pc' # pc

\* C13 as stated: no compensation, so an iteration that itself took less than
\* interval*batch is followed by a sleep, whatever happened before it.
C13_Original ==
    [][(CliPaceStep /\ work < Period) => pc' = "sleep"]_vars

\* C13 amended: the loop sleeps exactly when the advanced deadline lies in the
\* future; while the deadline is in the past it goes on without sleeping, also
\* after iterations that took no time (it catches up), and no batch is built
\* before its own deadline.
C13_CatchUpWithinSchedule ==
    /\ []((kind = "client" /\ pc \in {"check", "send", "inc_sent", "add_tx_bytes", "pace"})
             => lag >= 0)
    /\ [][CliPaceStep =>
            /\ (work >= Period) => pc' = "check"
            /\ (pc' = "sleep") = (lag < Period)]_vars

\* C13 witness: an iteration that took no time finds, at its pacing step, the
\* deadline still a whole period in the past.
C13_Witness ==
    /\ kind = "client" /\ pc = "pace" /\ work = 0 /\ lag >= Period
    /\ seq_ >= 2 * cfg.batch

\* A first run that went on to its deadline (stop() was not called) on a socket
\* that accepted every datagram submitted.
ClientFinished ==
    /\ kind = "client" /\ pc = "done" /\ starts = 1 /\ running_ /\ sent_ = seq_

C15_ClientCountsAccepted ==
    [][kind = "client" =>
         /\ (pc = "send" /\ pc' # pc) =>
               /\ UNCHANGED <<sent_, tx_bytes_>>
               /\ pc' = (IF s_res' > 0 THEN "inc_sent" ELSE "pace")
         /\ (pc = "inc_sent" /\ pc' # pc) =>
               /\ sent_' = sent_ + s_res /\ UNCHANGED tx_bytes_
               /\ pc' = "add_tx_bytes"
         /\ (pc = "add_tx_bytes" /\ pc' # pc) =>
               /\ tx_bytes_' = tx_bytes_ + cfg.batch * PktSize(cfg.payload)
               /\ UNCHANGED sent_ /\ pc' = "pace"
         /\ (pc \notin {"inc_sent", "add_tx_bytes"}) => UNCHANGED <<sent_, tx_bytes_>>]_vars

\* C15 witness: a partly accepted first batch has been counted: one datagram
\* sent, the bytes of the whole batch.
C15_Witness ==
    /\ kind = "client" /\ pc = "pace" /\ s_res = 1 /\ cfg.batch > 1
    /\ sent_ = 1 /\ tx_bytes_ = cfg.batch * PktSize(cfg.payload)

\* C16: on the echo path a transmit that accepted w replies adds w to the sent
\* counter and the sizes of the first w queued replies to the transmitted-byte
\* counter; a transmit that would block or failed counts nothing; either way
\* the loop goes on.
C16_EchoCountsAccepted ==
    [][OnIdentityPath =>
         /\ (pc = "sendmmsg" /\ pc' # pc) =>
               /\ UNCHANGED tx_bytes_
               /\ \/ /\ pc' = "add_tx_bytes" /\ w_sent' \in 1..Len(echo_msgs)
                     /\ sent_' = sent_ + w_sent'
                  \/ pc' = "tick" /\ UNCHANGED sent_
         /\ (pc = "add_tx_bytes" /\ pc' # pc) =>
               /\ tx_bytes_' = tx_bytes_ + SumLen(SubSeq(echo_msgs, 1, w_sent))
               /\ UNCHANGED sent_ /\ pc' = "tick"
         /\ (pc \notin {"sendmmsg", "add_tx_bytes"}) => UNCHANGED <<sent_, tx_bytes_>>]_vars

\* C16 witness: two replies of different sizes were queued, the transmit
\* accepted the first, and one packet with the first reply's bytes was counted.
C16_Witness ==
    /\ OnIdentityPath /\ pc = "tick" /\ Len(echo_msgs) = 2 /\ w_sent = 1
    /\ echo_msgs[1].len # echo_msgs[2].len
    /\ sent_ = 1 /\ tx_bytes_ = echo_msgs[1].len

\* The scenario of C17: echo on, peer p is the only sender and is admitted, and
\* every datagram it sent has been processed and its batch's replies handed to
\* the socket.
SingleClientEchoed(p) ==
    /\ OnIdentityPath /\ cfg.echo /\ Senders = {p} /\ KeyOf(p) \in admitted_
    /\ AllProcessed /\ pc \notin {"sendmmsg", "add_tx_bytes"}

\* C17 as stated: the k datagrams of the single client have all been sent back
\* to its address, each with the length it was sent with, in order.
C17_Original ==
    \A p \in Peers : SingleClientEchoed(p) =>
        echoOut = [j \in 1..Len(sentBy[p]) |->
                      [dst |-> KeyOf(p), len |-> sentBy[p][j]]]

\* C17 amended: every reply goes to the client's own address and carries the
\* received bytes of one of its datagrams (at most 2048 of them); no more than k
\* replies are transmitted, and when the transmits accepted all k, they are the
\* k datagrams in order, each cut to 2048 bytes.
C17_EchoBestEffort ==
    \A p \in Peers : SingleClientEchoed(p) =>
        /\ Len(echoOut) = sent_ /\ sent_ <= Len(sentBy[p])
        /\ \A j \in 1..Len(echoOut) :
              /\ echoOut[j].dst = KeyOf(p)
              /\ \E i \in 1..Len(sentBy[p]) :
                    echoOut[j].len = Min(sentBy[p][i], BufSize)
        /\ (sent_ = Len(sentBy[p])) =>
              echoOut = [j \in 1..Len(sentBy[p]) |->
                            [dst |-> KeyOf(p), len |-> Min(sentBy[p][j], BufSize)]]

\* C17 witness: both datagrams of the single client, a short and a long one,
\* were transmitted back.
C17_Witness ==
    \E p \in Peers :
        /\ SingleClientEchoed(p) /\ sent_ = 2 /\ Len(sentBy[p]) = 2
        /\ sentBy[p][1] # sentBy[p][2]

\* The metric names in the order of the exposition format
MetricNames ==
    <<"udp_packets_received_total", "udp_packets_sent_total", "udp_unique_clients",
      "udp_rx_bytes_total", "udp_tx_bytes_total">>

\* The counter state a scrape reads
CounterState ==
    <<recv_, sent_, UniqueClients(clients_), rx_bytes_, tx_bytes_>>

\* The number a digit string denotes
RECURSIVE ParseDecimal(_)
ParseDecimal(q) ==
    IF q = <<>> THEN 0
    ELSE 10 * ParseDecimal(SubSeq(q, 1, Len(q) - 1))
         + (CHOOSE d \in 0..9 : Digit(d) = q[Len(q)])

\* C18: the rendering of a counter state is fifteen lines: for each of the five
\* metrics, in the fixed order, a help line, a type line and a value line
\* `<name> <value>` whose digits denote that counter's value; for
\* (10, 4, 2, 640, 256) the value lines carry 10, 4, 2, 640 and 256.
C18_RenderFiveBlocks ==
    (page # <<>>) =>
        /\ Len(page) = 15
        /\ \A k \in 1..5 :
              /\ page[3 * k - 2][1] = "# HELP" /\ page[3 * k - 2][2] = MetricNames[k]
              /\ page[3 * k - 1][1] = "# TYPE" /\ page[3 * k - 1][2] = MetricNames[k]
              /\ Len(page[3 * k]) = 2 /\ page[3 * k][1] = MetricNames[k]
              /\ ParseDecimal(page[3 * k][2]) = CounterState[k]
        /\ (CounterState = <<10, 4, 2, 640, 256>>) =>
              /\ page[3][2] = <<"1", "0">> /\ page[6][2] = <<"4">>
              /\ page[9][2] = <<"2">> /\ page[12][2] = <<"6", "4", "0">>
              /\ page[15][2] = <<"2", "5", "6">>

\* C18 witness: the counter state (10, 4, 2, 640, 256) has been rendered.
C18_Witness ==
    page # <<>> /\ CounterState = <<10, 4, 2, 640, 256>>

\* C19: when bind() or connect() fails in the constructor, the caller gets the
\* exception and no engine: no thread is ever started, no start() ever counted,
\* no counter or identity ever touched, and that stays so.
C19_SetupFailurePropagates ==
    /\ []((lastOp = "ctor_threw") =>
             /\ caller = "threw" /\ th_ = "none" /\ m_th = "none" /\ pc = "none"
             /\ ~running_ /\ starts = 0
             /\ sent_ = 0 /\ recv_ = 0 /\ rx_bytes_ = 0 /\ tx_bytes_ = 0
             /\ DOMAIN clients_ = {})
    /\ [][(caller = "threw") => (caller' = "threw")]_vars

\* C19 witness: the constructor has thrown.
C19_Witness == caller = "threw" /\ lastOp = "ctor_threw"

CliSendStep == IsClient /\ pc = "send" /\ pc' # pc

\* C22: every batch the client builds is numbered previous + 1, previous + 2,
\* ... (the first datagram ever built carries 1); the counter moves only when
\* a batch is built, so it is neither reset by stop()/start() nor taken back
\* when the socket accepts only part of a batch.
C22_SeqConsecutive ==
    /\ [](IsClient /\ pkts # <<>> => pkts[Len(pkts)] = seq_)
    /\ [][IF CliSendStep
          THEN /\ Len(pkts') = cfg.batch
               /\ \A i \in 1..Len(pkts') : pkts'[i] = seq_ + i
               /\ seq_' = seq_ + cfg.batch
          ELSE UNCHANGED <<seq_, pkts>>]_vars

\* C22 witness: after a restart, a batch numbered beyond the first run's
\* numbers was only partly accepted.
C22_Witness ==
    /\ IsClient /\ starts = 2 /\ pc = "inc_sent" /\ s_res < cfg.batch
    /\ pkts[1] > cfg.batch /\ sent_ > 0

\* ------------------------------------------------ rate sample (C26)
\* The worker's step that stores the rate
RateSampleStep == IsServer /\ pc = "sample" /\ pc' # pc

\* C26: the stored last rate is the increase of the received counter since
\* the previous sample divided by the seconds elapsed since then:
\* rate * elapsed = delta.
C26_RateIsDeltaOverElapsed ==
    [][RateSampleStep =>
         last_rate_pps_' * el = recv_ - last_recv_total]_vars

\* ------------------------------------------------ flag read at loop top (C27)
\* A step of the worker thread, server or client
WorkerStep == pc \notin {"none", "done"} /\ pc' # pc

\* C27: the worker leaves its loop only from the loop-top check, and, once the
\* run flag is cleared, at the very next check; every other step goes on as
\* it would with the flag set (a pacing sleep ends only at its wake-up time),
\* and after the exit no datagram is received or sent.
C27_FlagReadOnlyAtLoopTop ==
    /\ [][WorkerStep =>
            /\ pc' = "done" => pc = "check"
            /\ pc = "check" /\ ~running_ => pc' = "done"
            /\ pc = "sleep" => lag >= 0]_vars
    /\ [][pc = "done" /\ pc' = "done" =>
            UNCHANGED <<statVars, admitted_, delivered, seq_, echoOut>>]_vars

\* C27 witness: the flag is cleared, stop() waits, and the worker is still
\* inside the iteration, about to send the echo replies it queued.
C27_Witness ==
    /\ IsServer /\ caller = "stop_join" /\ ~running_ /\ th_ = "joinable"
    /\ pc = "sendmmsg" /\ Len(echo_msgs) >= 1

\* ------------------------------------------------ echo queue (C29)
\* Messages of the current batch whose processing is over
Processed ==
    IF pc \in {"admit", "note_client", "inc_recv", "add_rx_bytes"}
    THEN SubSeq(msgs, 1, idx - 1)
    ELSE msgs

\* The replies owed to a sequence of messages: one per served message (its
\* key is in the admission set), in order, to the message's own source
RepliesFor(ms) ==
    LET Served(m) == m.key \in admitted_
        served == SelectSeq(ms, Served)
    IN [k \in 1..Len(served) |-> [dst |-> served[k].key, len |-> served[k].len]]

\* C29: with echo on, on the identity path, the replies queued in an iteration
\* are exactly the datagrams served in it, in receive order, each addressed to
\* its own source; a dropped datagram is never queued.
C29_EchoQueueIsServed ==
    (OnIdentityPath /\ cfg.echo /\ pc \notin {"none", "done", "check", "recvmmsg", "sample"})
        => echo_msgs = RepliesFor(Processed)

\* C29 witness: a batch of two datagrams from two peers, one served and one
\* dropped, has been processed and one reply is queued.
C29_Witness ==
    /\ OnIdentityPath /\ cfg.echo /\ pc = "sendmmsg"
    /\ Len(msgs) = 2 /\ msgs[1].key # msgs[2].key /\ Len(echo_msgs) = 1

\* ------------------------------------------------ degraded echo (C30)
\* C30: in the degraded mode with echo on nothing is ever sent: sent and
\* tx_bytes stay 0, no reply is queued or handed to the socket, and the worker
\* leaves its loop only at the loop-top check with the run flag cleared.
C30_DegradedEchoIsNoOp ==
    /\ []((OnDegradedPath /\ cfg.echo) =>
            /\ sent_ = 0 /\ tx_bytes_ = 0 /\ echo_msgs = <<>> /\ echoOut = <<>>
            /\ pc \notin {"sendmmsg", "add_tx_bytes"})
    /\ [][(OnDegradedPath /\ cfg.echo /\ pc # "done" /\ pc' = "done") =>
            pc = "check" /\ ~running_]_vars

\* C30 witness: a degraded server with echo on has counted two datagrams, is
\* back at the loop top still running, and has sent nothing.
C30_Witness ==
    /\ OnDegradedPath /\ cfg.echo /\ pc = "check" /\ running_
    /\ recv_ = 2 /\ rx_bytes_ = 2 * BufSize /\ sent_ = 0 /\ tx_bytes_ = 0

\* ------------------------------------------------ shared state (C28)
\* The worker's next step stores last_rate_pps_, a plain double.
WritesLastRate == IsServer /\ th_ = "joinable" /\ pc = "sample"

\* C28: apart from the Counters (atomics and the mutex-guarded map), no state
\* written by a worker can be read by another thread at the same time: the
\* worker is never about to store the last rate while another thread may be
\* reading it through last_rate_pps().
C28_OnlyCountersShared == ~(WritesLastRate /\ LastRateReadable)

\* ------------------------------------------------ Stats under concurrency (C21)
\* note_client calls that have been entered and have not yet written
NotesInFlight == Cardinality({t \in Threads : st.at[t] # "idle"})

\* C21: whatever the interleaving of the calling threads, each of the four
\* counters equals the sum of the amounts passed to it, and once no note_client
\* call is in progress each identity's hits equal the number of note_client
\* calls made with it (so the hits sum to the number of calls).
C21_NoLostUpdate ==
    st.unit = "stats" =>
        /\ sent_ = st.issued.sent /\ recv_ = st.issued.recv
        /\ rx_bytes_ = st.issued.rx /\ tx_bytes_ = st.issued.tx
        /\ NotesInFlight = 0 => clients_ = st.noted

\* C21 witness: every thread has made all its calls and none is in progress;
\* one identity was noted at least twice and a packet counter was updated.
C21_Witness ==
    /\ st.unit = "stats" /\ \A t \in Threads : st.calls[t] = MaxCalls
    /\ NotesInFlight = 0
    /\ \E k \in DOMAIN clients_ : clients_[k] >= 2
    /\ recv_ + sent_ >= 1

\* ------------------------------------------------ in-memory receive (C23)
SockRecvStep == sock.unit = "sock" /\ sock' # sock /\ sock'.call = "recv_batch"

\* C23: recv_batch of the in-memory socket with n buffers returns min(n,
\* preloaded datagrams not yet delivered), never a negative value, 0 when none
\* remain, and delivers exactly the next datagrams in preload order: all that
\* was ever delivered is the preloaded sequence up to the cursor, each once.
C23_MockRecvFifoOnce ==
    /\ []((sock.unit = "sock" /\ sock.variant = "mock") =>
            /\ sock.recv_cursor <= Len(sock.rx_store)
            /\ sock.got = [k \in 1..sock.recv_cursor |-> Copied(sock.rx_store[k])])
    /\ [][SockRecvStep =>
            /\ sock'.res = Min(sock'.nbufs, Len(sock.rx_store) - sock.recv_cursor)
            /\ sock'.res >= 0
            /\ sock'.recv_cursor = sock.recv_cursor + sock'.res]_vars

\* C23 witness: three datagrams were preloaded; a call with two buffers
\* returned 2 and a later one returned the third, with nothing left.
C23_Witness ==
    /\ sock.unit = "sock" /\ sock.variant = "mock" /\ sock.call = "recv_batch"
    /\ Len(sock.rx_store) = 3 /\ sock.recv_cursor = 3
    /\ sock.nbufs = 2 /\ sock.res = 1 /\ Len(sock.got) = 3

\* ------------------------------------------------ send without destination (C24)
\* A send_batch call on a socket with no connected peer, given no destination
SockSendNoDestStep ==
    /\ sock.unit = "sock" /\ sock' # sock /\ sock'.call = "send_batch"
    /\ ~sock.connected /\ ~sock'.hasDest

\* C24 as stated: for both variants such a call yields an error result and
\* records nothing.
C24_Original ==
    [][SockSendNoDestStep =>
         sock'.res < 0 /\ sock'.tx_store = sock.tx_store]_vars

\* C24 (amended): such a call on the kernel-backed socket returns the error
\* result -1 and transmits nothing; on the in-memory socket, which ignores the
\* address, it records every buffer and returns the batch size.
C24_NoDestErrorOnUdpOnly ==
    [][SockSendNoDestStep =>
         IF sock.variant = "udp"
         THEN sock'.res = -1 /\ sock'.tx_store = sock.tx_store
         ELSE /\ sock'.res = sock'.nbufs
              /\ Len(sock'.tx_store) = Len(sock.tx_store) + sock'.nbufs]_vars

\* C24 witness: an unconnected kernel-backed socket has just refused a batch of
\* two buffers sent without destination.
C24_Witness ==
    /\ sock.unit = "sock" /\ sock.variant = "udp" /\ ~sock.connected
    /\ sock.call = "send_batch" /\ ~sock.hasDest /\ sock.nbufs = 2
    /\ sock.res = -1 /\ sock.tx_store = <<>>

\* ------------------------------------------------ --max-clients (C25)
\* main has parsed its command line.
Parsed == argv.unit = "main" /\ kind = "server"

\* C25: the server started with `--max-clients N` has max_clients = N; one
\* started without the option has the default 100.
C25_MaxClientsOption ==
    Parsed =>
        /\ (\A i \in 1..Len(argv.args) : argv.args[i].text # "--max-clients")
              => cfg.max_clients = DefaultMaxClients
        /\ (Len(argv.args) = 2 /\ argv.args[1].text = "--max-clients"
              /\ argv.args[2].text = "number")
              => cfg.max_clients = argv.args[2].val

\* ------------------------------------------------ stop() with metrics (C31)
\* C31: once UdpServer::stop() has cleared the metrics thread's run flag and
\* waits for that thread, the thread observes the flag, exits and is joined,
\* and stop() returns, even when no HTTP client ever connects.
C31_MetricsStopReturns == (caller = "mstop_join") ~> (caller = "idle")

\* ------------------------------------------------ header not inspected (C32)
\* Bytes the server counts for admitted peer p's datagrams
CountedBytes(p) == SumSeq([k \in 1..Len(sentBy[p]) |-> MsgLen(sentBy[p][k])])

\* C32: whether a datagram's header conforms plays no part: once everything
\* sent has been processed, every admitted identity has one hit per datagram it
\* sent, short or wrong-magic ones included, and the packet and byte counters
\* are the totals over the admitted identities of datagrams and received bytes.
C32_HeaderNotInspected ==
    (OnIdentityPath /\ AllProcessed) =>
        /\ \A p \in AdmittedPeers : Hits(clients_, KeyOf(p)) = Len(sentBy[p])
        /\ recv_ = SumOver([p \in Peers |-> Len(sentBy[p])], AdmittedPeers)
        /\ rx_bytes_ = SumOver([p \in Peers |-> CountedBytes(p)], AdmittedPeers)

\* C32 witness: an admitted identity sent a datagram shorter than the header
\* and a conforming one; both are counted.
C32_Witness ==
    /\ OnIdentityPath /\ AllProcessed /\ pc = "check"
    /\ \E p \in AdmittedPeers :
        /\ ShortPayload \in Range(sentBy[p]) /\ Len(sentBy[p]) = 2
        /\ clients_[KeyOf(p)] = 2
    /\ recv_ = 2 /\ rx_bytes_ > ShortPayload

\* ------------------------------------------------ packet size and magic (C33)
\* C33: every datagram the client submits is max(payload, 20) bytes long, so
\* at least the header size, and its header carries the magic 0xC0DEF00D,
\* whatever the configured payload (0 and negative values included).
C33_PacketSizeAndMagic ==
    (IsClient /\ sock.unit = "sock") =>
        \A k \in 1..Len(sock.tx_store) :
            /\ sock.tx_store[k].size =
                  (IF cfg.payload > HeaderSize THEN cfg.payload ELSE HeaderSize)
            /\ sock.tx_store[k].size >= HeaderSize
            /\ sock.tx_store[k].magic = <<49374, 61453>>

\* C33 witness: a client configured with a negative payload has submitted a
\* batch.
C33_Witness ==
    /\ IsClient /\ sock.unit = "sock" /\ cfg.payload < 0
    /\ Len(sock.tx_store) >= Batch /\ sock.tx_store[1].size = HeaderSize

\* ------------------------------------------------ in-memory send (C35)
CliSendMockStep == IsClient /\ sock.unit = "sock" /\ pc = "send" /\ pc' # pc

\* C35: send_batch of the in-memory socket appends every submitted buffer, in
\* submission order, and returns the number submitted, so sent_count() grows
\* by each returned value; for a client driven by it sent_count() equals the
\* client's sent counter at every iteration boundary.
C35_MockSendRecordsAll ==
    /\ []((IsClient /\ sock.unit = "sock" /\ pc \in {"none", "check", "done"})
            => Len(sock.tx_store) = sent_)
    /\ [][CliSendMockStep =>
            /\ sock'.res = cfg.batch
            /\ Len(sock'.tx_store) = Len(sock.tx_store) + sock'.res
            /\ SubSeq(sock'.tx_store, 1, Len(sock.tx_store)) = sock.tx_store
            /\ \A k \in 1..cfg.batch :
                  sock'.tx_store[Len(sock.tx_store) + k].seq = pkts'[k]]_vars

\* C35 witness: after a restart the client is at its loop top with two batches
\* or more recorded by the socket and counted.
C35_Witness ==
    /\ IsClient /\ sock.unit = "sock" /\ starts = 2 /\ pc = "check"
    /\ Len(sock.tx_store) >= 2 * Batch /\ sent_ = Len(sock.tx_store)

\* ------------------------------------------------ exporter is read-only (C34)
\* A step of the metrics thread inside a scrape
RenderStep == IsServer /\ st.unit = "render" /\ (m_pc' # m_pc \/ st' # st)

\* C34: no step of a scrape changes a counter or the identity map (the worker's
\* steps interleave freely with it), and each value on the page returned is
\* the one its getter read, which lies between what the counter held when
\* render() was entered and what it holds when render() returns.
C34_RenderReadsOnly ==
    /\ [][RenderStep => UNCHANGED <<statVars, admitted_, last_rate_pps_>>]_vars
    /\ []((IsServer /\ st.unit = "render" /\ m_pc = "render") =>
            \A k \in 1..Len(st.vals) :
                st.lo[k] <= st.vals[k] /\ st.vals[k] <= Getters[k])
    /\ [][(RenderStep /\ m_pc' = "accept") =>
            page' = Render(st.vals[1], st.vals[2], st.vals[3], st.vals[4],
                           st.vals[5])]_vars

\* C34 witness: render() has read all five values while the worker was
\* counting and is about to return: the received count it read is older than
\* the counter and newer than the value at the start of the call.
C34_Witness ==
    /\ IsServer /\ st.unit = "render" /\ m_pc = "render" /\ Len(st.vals) = 5
    /\ st.lo[1] < st.vals[1] /\ st.vals[1] < recv_
    /\ st.vals[4] > st.lo[4]

\* ------------------------------------------------ identity map and admission set (C36)
\* C36: on the source-identity path the identities in the counters' map are
\* always within the admission set, so unique clients <= admitted <=
\* max_clients; the two sets differ only while an admitted datagram waits for
\* its note_client, so they are equal at every iteration boundary.
C36_MapWithinAdmission ==
    OnIdentityPath =>
        /\ DOMAIN clients_ \subseteq admitted_
        /\ UniqueClients(clients_) <= Cardinality(admitted_)
        /\ Cardinality(admitted_) <= cfg.max_clients
        /\ pc # "note_client" => DOMAIN clients_ = admitted_

\* C36 witness: an identity has just been admitted, filling the set, and is
\* not yet in the map.
C36_Witness ==
    /\ OnIdentityPath /\ pc = "note_client"
    /\ msgs[idx].key \in admitted_ /\ msgs[idx].key \notin DOMAIN clients_
    /\ Cardinality(admitted_) = cfg.max_clients

\* ------------------------------------------------ received and hits (C37)
\* The hits recorded over all identities
TotalHits == SumOver(clients_, DOMAIN clients_)

\* C37: on the source-identity path the received counter never exceeds the sum
\* of the identities' hits (the hit is recorded first), the two are equal except
\* between note_client and inc_recv, hence at every iteration boundary, and
\* received > 0 is never seen with unique clients = 0.
C37_RecvIsTotalHits ==
    OnIdentityPath =>
        /\ recv_ <= TotalHits
        /\ pc # "inc_recv" => recv_ = TotalHits
        /\ recv_ > 0 => UniqueClients(clients_) > 0

\* C37 witness: the second datagram of one identity has its hit recorded and
\* is not yet counted as received.
C37_Witness ==
    /\ OnIdentityPath /\ pc = "inc_recv" /\ recv_ = 1 /\ TotalHits = 2
    /\ clients_[msgs[idx].key] = 2

\* ------------------------------------------------ sent within received (C38)
\* C38: on a server the sent counter never exceeds the received counter and
\* the transmitted bytes never exceed the received bytes; with echo off both
\* sent and transmitted bytes are 0 in every state.
C38_SentWithinReceived ==
    IsServer =>
        /\ sent_ <= recv_ /\ tx_bytes_ <= rx_bytes_
        /\ ~cfg.echo => sent_ = 0 /\ tx_bytes_ = 0

\* C38 witness: every received datagram has been echoed, byte for byte.
C38_Witness ==
    /\ IsServer /\ cfg.echo /\ sent_ = 2 /\ recv_ = 2
    /\ tx_bytes_ = rx_bytes_ /\ pc = "tick"

\* ------------------------------------------------ degraded mode records nothing (C39)
\* C39: in the degraded mode no identity is ever recorded or admitted, and the
\* received bytes advance by the buffer capacity per counted datagram, so that
\* rx_bytes = 2048 * received except between the two updates for one datagram.
C39_DegradedNoIdentity ==
    OnDegradedPath =>
        /\ clients_ = <<>> /\ UniqueClients(clients_) = 0 /\ admitted_ = {}
        /\ pc # "fb_add_rx_bytes" => rx_bytes_ = BufSize * recv_

\* C39 witness: two peers' datagrams of 64 bytes have been counted as 2048
\* bytes each, with no identity on record.
C39_Witness ==
    /\ OnDegradedPath /\ pc = "check" /\ recv_ = 2 /\ rx_bytes_ = 2 * BufSize
    /\ \A p \in Peers : sentBy[p] = <<SmallPayload>>
    /\ clients_ = <<>>

\* ------------------------------------------------ failed receive skips the sample (C40)
\* C40: an iteration whose receive fails with a hard error goes straight back
\* to the loop top: neither the failing receive nor the way to the next receive
\* changes a counter, the identity map, the admission set or the stored last
\* rate, and no rate sample is taken in between.
C40_ErrorIterationIsNoOp ==
    /\ [][(IsServer /\ pc \in {"recvmmsg", "recv_batch"} /\ pc' # pc /\ r_res' < 0) =>
            /\ pc' = "check"
            /\ UNCHANGED <<statVars, admitted_, last_rate_pps_, last_recv_total>>]_vars
    /\ [][(IsServer /\ pc = "check" /\ r_res < 0 /\ pc' # pc) =>
            /\ pc' \in {"recvmmsg", "recv_batch", "done"}
            /\ UNCHANGED <<statVars, admitted_, last_rate_pps_, last_recv_total>>]_vars

\* C40 witness: a rate above 0 is on record, datagrams counted since then have
\* not been sampled, and the receive has just failed.
C40_Witness ==
    /\ OnIdentityPath /\ pc = "check" /\ r_res < 0 /\ running_
    /\ last_rate_pps_ > 0 /\ recv_ > last_recv_total

====
